---- MODULE Spec2Model ----
(***************************************************************************)
(* Model of the regime pipeline of cygnet-energy:                          *)
(*   src/models/modules_2_regime_detector.py  RegimeDetector               *)
(*   src/models/modules_3_regime_models.py    RegimeModel(Ensemble)        *)
(*   src/models/modules_4_stress_tester.py    StressTester                 *)
(*   src/api/client.py, src/api/parser.py     EntsoEAPIClient, XML parser  *)
(* Every method is one action; what the caller receives (a returned value  *)
(* or a raised exception) is recorded in det_call / call.                  *)
(* Real numbers are modelled by integers and by fractions num/den.         *)
(***************************************************************************)
EXTENDS Integers, Sequences, FiniteSets, TLC

VARIABLES
    \* ---- RegimeDetector (modules_2_regime_detector.py:33-39)
    det_n_regimes,      \* self.n_regimes
    det_scaler,         \* self.scaler (StandardScaler, fitted or not)
    det_kmeans,         \* self.kmeans (None or a KMeans object)
    det_centroids,      \* self.centroids (None or an array, original units)
    det_feature_names,  \* self.feature_names
    det_file,           \* the pickle file the detector is saved to / loaded from
    det_call,           \* the detector call that ended and what its caller received
    det_completed,      \* history: has some fit or load returned normally
    \* ---- RegimeModelEnsemble (modules_3_regime_models.py:86-90)
    ens_n_regimes,      \* self.n_regimes
    ens_models,         \* self.models: regime id -> RegimeModel
    ens_feature_names,  \* self.feature_names
    ens_target_name,    \* self.target_name
    \* ---- StressTester (modules_4_stress_tester.py:24-30) and its caller
    st_feature_names,   \* self.feature_names, copied at construction
    call,               \* the ensemble / tester call that ended and what its caller received
    ens_dir,            \* the directory the ensemble is saved to / loaded from
    callers,            \* concurrent callers of one tester: what each is doing
    \* ---- StateVariableCompute (modules_1_state_variables.py) and its database
    sv_rows,            \* the generation_actual rows of the zone in the window
    sv_out,             \* what compute_for_zone returned for them
    regime_states,      \* the regime_states table: (time, zone) -> row
    \* ---- RegimeDetector.predict_regime on concrete fitted parameters
    pr_call,            \* the fitted parameters, the input and the result
    \* ---- EntsoEAPIClient (src/api/client.py) and the XML parser (src/api/parser.py)
    api_requests,       \* the HTTP requests the client has issued, in order
    api_call,           \* the client call that ended: arguments, reply, result
    xml_call            \* the parser call that ended: document and result

det_vars == <<det_n_regimes, det_scaler, det_kmeans, det_centroids,
              det_feature_names, det_file, det_call, det_completed>>
ens_vars == <<ens_n_regimes, ens_models, ens_feature_names, ens_target_name>>
st_vars  == <<st_feature_names, call>>
api_vars == <<api_requests, api_call, xml_call>>
ext_vars == <<ens_dir, callers, sv_rows, sv_out, regime_states, pr_call, api_vars>>
vars     == <<det_vars, ens_vars, st_vars, ext_vars>>

\* Python's None, and the list and str objects an attribute may hold instead.
None    == [tag |-> "None"]
List(s) == [tag |-> "list", items |-> s]
Str(s)  == [tag |-> "str", s |-> s]

\* What is outside the objects under study: no directory written, no caller
\* started, no rows fetched, an empty table.
EmptyDir == [metadata |-> None, files |-> <<>>, saved_by |-> None]
\* No request issued, no client or parser call made.
ApiInit ==
    /\ api_requests = <<>>
    /\ api_call = None
    /\ xml_call = None
ExtInit ==
    /\ ApiInit
    /\ ens_dir = EmptyDir
    /\ callers = <<>>
    /\ sv_rows = <<>>
    /\ sv_out = None
    /\ regime_states = <<>>
    /\ pr_call = None

Min(a, b) == IF a <= b THEN a ELSE b
Abs(a)    == IF a >= 0 THEN a ELSE 0 - a
Range(s)  == {s[i] : i \in DOMAIN s}

RECURSIVE SeqsUpTo(_, _)
\* All sequences over S of length at most n.
SeqsUpTo(S, n) ==
    IF n = 0 THEN {<<>>}
    ELSE LET shorter == SeqsUpTo(S, n - 1)
         IN  shorter \cup {Append(s, x) : s \in {t \in shorter : Len(t) = n - 1}, x \in S}

\* What a caller receives: a returned value or a raised exception.
Returned(v)      == [kind |-> "ok", value |-> v]
Raised(exc, msg) == [kind |-> "raise", exc |-> exc, msg |-> msg]

(***************************************************************************)
(*                             RegimeDetector                              *)
(***************************************************************************)

\* ---- bounds of the detector model
MaxK    == 3    \* n_regimes given to the constructor: 1..MaxK
MaxRows == 3    \* rows of the DataFrame handed to fit

\* self.feature_names of __init__.
DetectorFeatures == <<"res_penetration", "net_import", "price_volatility">>

\* REGIME_NAMES, the fixed id -> name table.
REGIME_NAMES == [i \in 0..2 |-> <<"Normal", "Stressed", "RES-Dominant">>[i + 1]]

\* A cell of the DataFrame: a number or NaN.
Num(v) == [isnan |-> FALSE, v |-> v]
NaN    == [isnan |-> TRUE, v |-> 0]

\* The rows fit is tried on: points that differ in one feature, and rows with a
\* NaN in the first and in the last feature.
ValidRows == {<<Num(v), Num(0), Num(0)>> : v \in {0, 1}}
NaNRows   == {<<NaN, Num(0), Num(0)>>, <<Num(0), Num(0), NaN>>}
DetRows   == ValidRows \cup NaNRows
DetFrames == SeqsUpTo(DetRows, MaxRows)

\* mask = ~np.isnan(features).any(axis=1)
RowHasNaN(row) == \E j \in DOMAIN row : row[j].isnan

RECURSIVE DropNaNRows(_)
\* features = features[mask]: the rows without any NaN, in their order.
DropNaNRows(df) ==
    IF df = <<>> THEN <<>>
    ELSE IF RowHasNaN(Head(df)) THEN DropNaNRows(Tail(df))
         ELSE <<Head(df)>> \o DropNaNRows(Tail(df))

\* sklearn KMeans(n_clusters = k).fit: the number of distinct labels it assigns
\* is k, or the number of distinct points when there are fewer than k of them.
KMeansLabelCount(features, k) == Min(k, Cardinality(Range(features)))

\* sklearn silhouette_score -> check_number_of_labels: it raises ValueError
\* unless 2 <= n_labels <= n_samples - 1.
SilhouetteRaises(n_labels, n_samples) == ~(1 < n_labels /\ n_labels < n_samples)

\* The fitted objects; their parameters are determined by the training matrix,
\* which stands for them.
FittedScaler(features)    == [tag |-> "StandardScaler", fitted |-> TRUE, fit_on |-> features]
UnfittedScaler            == [tag |-> "StandardScaler", fitted |-> FALSE, fit_on |-> <<>>]
FittedKMeans(features, k) == [tag |-> "KMeans", n_clusters |-> k, fit_on |-> features,
                              n_labels |-> KMeansLabelCount(features, k)]
Centroids(features, k)    == [tag |-> "ndarray", len |-> k, fit_on |-> features]

\* The state of one detector object.
DetState == [n_regimes |-> det_n_regimes, scaler |-> det_scaler, kmeans |-> det_kmeans,
             centroids |-> det_centroids, feature_names |-> det_feature_names]

\* RegimeDetector.__init__(n_regimes).
DetNew(k) == [n_regimes |-> k, scaler |-> UnfittedScaler, kmeans |-> None,
              centroids |-> None, feature_names |-> DetectorFeatures]

\* RegimeDetector.fit(df): the detector after the call and what the caller gets.
\* The scaler is refit in place, and self.kmeans and self.centroids are assigned,
\* before silhouette_score is computed.
DetFit(s, df) ==
    LET features == DropNaNRows(df)
        k        == s.n_regimes
        fitted   == [s EXCEPT !.scaler    = FittedScaler(features),
                              !.kmeans    = FittedKMeans(features, k),
                              !.centroids = Centroids(features, k)]
    IN  IF Len(features) < k
        THEN [state |-> s, out |-> Raised("ValueError", "Need at least n_regimes samples")]
        ELSE IF SilhouetteRaises(KMeansLabelCount(features, k), Len(features))
             THEN [state |-> fitted, out |-> Raised("ValueError", "Number of labels is invalid")]
             ELSE [state |-> fitted,
                   out   |-> Returned([n_samples |-> Len(features), n_regimes |-> k])]

\* REGIME_NAMES.get(regime_id, f"Regime_{regime_id}")
RegimeNameOrDefault(regime_id) ==
    IF regime_id \in DOMAIN REGIME_NAMES THEN REGIME_NAMES[regime_id]
    ELSE "Regime_" \o ToString(regime_id)

\* RegimeDetector.predict_regime(...) when kmeans assigns the point to regime_id.
\* sorted_dist[1] does not exist when there is a single cluster centre.
DetPredictRegime(s, point, regime_id) ==
    IF s.kmeans = None
    THEN Raised("ValueError", "Model not fitted. Call fit() first.")
    ELSE IF ~s.scaler.fitted
    THEN Raised("NotFittedError", "This StandardScaler instance is not fitted yet")
    ELSE IF s.kmeans.n_clusters < 2
    THEN Raised("IndexError", "index 1 is out of bounds")
    ELSE Returned([regime_id    |-> regime_id,
                   regime_name  |-> RegimeNameOrDefault(regime_id),
                   state_vector |-> point])

\* RegimeDetector.regime_profile(regime_id). A negative id passes the range
\* test; numpy indexes from the end down to -len and REGIME_NAMES has no such key.
DetRegimeProfile(s, regime_id) ==
    IF s.centroids = None
    THEN Raised("ValueError", "Model not fitted.")
    ELSE IF regime_id >= s.centroids.len
    THEN Raised("ValueError", "Regime not found")
    ELSE IF regime_id < 0 - s.centroids.len
    THEN Raised("IndexError", "index is out of bounds")
    ELSE IF regime_id \notin DOMAIN REGIME_NAMES
    THEN Raised("KeyError", "regime_id")
    ELSE Returned([regime_id |-> regime_id, regime_name |-> REGIME_NAMES[regime_id],
                   centroid  |-> [of |-> s.centroids.fit_on, row |-> regime_id]])

\* RegimeDetector.save(filepath): the pickled dict.
BundleKeys == <<"scaler", "kmeans", "centroids", "n_regimes", "feature_names">>
DetSave(s) == [keys |-> Range(BundleKeys), data |-> s]

RECURSIVE DetLoadFrom(_, _, _)
\* The assignments of load, one key after the other; a missing key raises
\* KeyError and keeps the assignments already made.
DetLoadFrom(s, bundle, i) ==
    IF i > Len(BundleKeys) THEN [state |-> s, out |-> Returned(None)]
    ELSE IF BundleKeys[i] \notin bundle.keys
         THEN [state |-> s, out |-> Raised("KeyError", BundleKeys[i])]
         ELSE DetLoadFrom(
                CASE BundleKeys[i] = "scaler"    -> [s EXCEPT !.scaler = bundle.data.scaler]
                  [] BundleKeys[i] = "kmeans"    -> [s EXCEPT !.kmeans = bundle.data.kmeans]
                  [] BundleKeys[i] = "centroids" -> [s EXCEPT !.centroids = bundle.data.centroids]
                  [] BundleKeys[i] = "n_regimes" -> [s EXCEPT !.n_regimes = bundle.data.n_regimes]
                  [] OTHER -> [s EXCEPT !.feature_names = bundle.data.feature_names],
                bundle, i + 1)

\* RegimeDetector.load(filepath).
DetLoad(s, file) ==
    IF file = None
    THEN [state |-> s, out |-> Raised("FileNotFoundError", "filepath")]
    ELSE DetLoadFrom(s, file, 1)

\* ---- the detector's actions. A caller makes one call at a time: it receives
\* what the call returned or raised (det_call) and then goes on (DetIdle).
DetIdle == [op |-> "idle", args |-> <<>>, out |-> Returned(None)]

DetApply(r, op, args) ==
    /\ det_n_regimes' = r.state.n_regimes
    /\ det_scaler' = r.state.scaler
    /\ det_kmeans' = r.state.kmeans
    /\ det_centroids' = r.state.centroids
    /\ det_feature_names' = r.state.feature_names
    /\ det_call' = [op |-> op, args |-> args, out |-> r.out]
    /\ det_completed' = (det_completed \/ (op \in {"fit", "load"} /\ r.out.kind = "ok"))

Fit ==
    \E df \in DetFrames :
        /\ det_call.op = "idle"
        /\ DetApply(DetFit(DetState, df), "fit", <<df>>)
        /\ UNCHANGED <<det_file, ens_vars, st_vars, ext_vars>>

PredictRegime ==
    \E point \in ValidRows, regime_id \in 0..(MaxK - 1) :
        /\ det_call.op = "idle"
        /\ det_kmeans # None => regime_id < det_kmeans.n_clusters
        /\ DetApply([state |-> DetState, out |-> DetPredictRegime(DetState, point, regime_id)],
                    "predict_regime", <<point>>)
        /\ UNCHANGED <<det_file, ens_vars, st_vars, ext_vars>>

RegimeProfile ==
    \E regime_id \in (0 - 1 - MaxK)..MaxK :
        /\ det_call.op = "idle"
        /\ DetApply([state |-> DetState, out |-> DetRegimeProfile(DetState, regime_id)],
                    "regime_profile", <<regime_id>>)
        /\ UNCHANGED <<det_file, ens_vars, st_vars, ext_vars>>

Save ==
    /\ det_call.op = "idle"
    /\ det_file' = DetSave(DetState)
    /\ det_call' = [op |-> "save", args |-> <<>>, out |-> Returned(None)]
    /\ UNCHANGED <<det_n_regimes, det_scaler, det_kmeans, det_centroids,
                   det_feature_names, det_completed, ens_vars, st_vars, ext_vars>>

Load ==
    /\ det_call.op = "idle"
    /\ DetApply(DetLoad(DetState, det_file), "load", <<>>)
    /\ UNCHANGED <<det_file, ens_vars, st_vars, ext_vars>>

DetContinue ==
    /\ det_call.op # "idle"
    /\ det_call' = DetIdle
    /\ UNCHANGED <<det_n_regimes, det_scaler, det_kmeans, det_centroids,
                   det_feature_names, det_file, det_completed, ens_vars, st_vars, ext_vars>>

\* The file at filepath is replaced by a pickled dict that lacks one of the
\* keys load reads (a bundle that this save did not write).
IncompleteBundle ==
    \E missing \in Range(BundleKeys) :
        /\ det_call.op = "idle"
        /\ det_file # None
        /\ missing \in det_file.keys
        /\ det_file' = [det_file EXCEPT !.keys = @ \ {missing}]
        /\ det_call' = [op |-> "write", args |-> <<missing>>, out |-> Returned(None)]
        /\ UNCHANGED <<det_n_regimes, det_scaler, det_kmeans, det_centroids,
                       det_feature_names, det_completed, ens_vars, st_vars, ext_vars>>

\* detector = RegimeDetector(n_regimes): a new object, e.g. the one main_app
\* constructs before it calls load; the file stays.
NewDetector ==
    \E k \in 1..MaxK :
        /\ det_call.op = "idle"
        /\ DetApply([state |-> DetNew(k), out |-> Returned(None)], "RegimeDetector", <<k>>)
        /\ UNCHANGED <<det_file, ens_vars, st_vars, ext_vars>>

\* One pass of the loop of analyze_df: predict_regime on the row. The scaler
\* rejects a row with a NaN (ValueError of check_array).
DetAnalyzeRow(s, row, labels) ==
    IF RowHasNaN(row)
    THEN IF s.kmeans # None /\ s.scaler.fitted
         THEN Raised("ValueError", "Input contains NaN")
         ELSE DetPredictRegime(s, row, 0)
    ELSE DetPredictRegime(s, row, labels[row])

\* An analyze_df that standardizes the frame it is given, refitting the scaler.
DetAnalyzeDfRefit(s, df, labels) ==
    LET outs == [i \in DOMAIN df |-> DetAnalyzeRow(s, df[i], labels)]
        bad  == {i \in DOMAIN df : outs[i].kind = "raise"}
    IN  IF bad # {}
        THEN [state |-> s, out |-> outs[CHOOSE i \in bad : \A j \in bad : i <= j]]
        ELSE [state |-> [s EXCEPT !.scaler = FittedScaler(df)],
              out   |-> Returned([i \in DOMAIN df |->
                           [row |-> df[i], regime_id |-> outs[i].value.regime_id,
                            regime_name |-> outs[i].value.regime_name]])]

\* RegimeDetector.analyze_df(df): predict_regime row by row, the first error
\* ends the call; labels is the cluster kmeans.predict gives to each point.
DetAnalyzeDf(s, df, labels) ==
    LET outs == [i \in DOMAIN df |-> DetAnalyzeRow(s, df[i], labels)]
        bad  == {i \in DOMAIN df : outs[i].kind = "raise"}
    IN  IF bad # {}
        THEN [state |-> s, out |-> outs[CHOOSE i \in bad : \A j \in bad : i <= j]]
        ELSE [state |-> s,
              out   |-> Returned([i \in DOMAIN df |->
                           [row |-> df[i], regime_id |-> outs[i].value.regime_id,
                            regime_name |-> outs[i].value.regime_name]])]

AnalyzeDf ==
    \E df \in DetFrames,
       labels \in [ValidRows -> 0..(IF det_kmeans = None THEN 0
                                    ELSE det_kmeans.n_clusters - 1)] :
        /\ det_call.op = "idle"
        /\ DetApply(DetAnalyzeDf(DetState, df, labels), "analyze_df", <<df>>)
        /\ UNCHANGED <<det_file, ens_vars, st_vars, ext_vars>>

\* The training frames of the fitted detectors the inference calls start
\* from: k + 1 rows in ascending order, k of them distinct.
InferenceFrames(k) ==
    {[i \in 1..(k + 1) |-> <<Num(v[i]), Num(0), Num(0)>>] :
        v \in {w \in [1..(k + 1) -> 0..(k - 1)] :
                  /\ \A i \in 1..k : w[i] <= w[i + 1]
                  /\ \A x \in 0..(k - 1) : \E i \in 1..(k + 1) : w[i] = x}}

DetInit(k) ==
    /\ det_n_regimes = k
    /\ det_scaler = UnfittedScaler
    /\ det_kmeans = None
    /\ det_centroids = None
    /\ det_feature_names = DetectorFeatures
    /\ det_file = None
    /\ det_call = DetIdle
    /\ det_completed = FALSE

(***************************************************************************)
(*                    Numbers: exact rationals num/den                     *)
(***************************************************************************)

RECURSIVE Gcd(_, _)
Gcd(a, b) == IF b = 0 THEN a ELSE Gcd(b, a % b)

\* The rational n/d (d # 0) in lowest terms with a positive denominator.
Rat(n, d) ==
    LET g == Gcd(Abs(n), Abs(d))
        sgn == IF d < 0 THEN 0 - 1 ELSE 1
    IN  [num |-> (sgn * n) \div g, den |-> (sgn * d) \div g]
I(n)       == Rat(n, 1)
RAdd(a, b) == Rat(a.num * b.den + b.num * a.den, a.den * b.den)
RSub(a, b) == Rat(a.num * b.den - b.num * a.den, a.den * b.den)
RMul(a, b) == Rat(a.num * b.num, a.den * b.den)
RDiv(a, b) == Rat(a.num * b.den, a.den * b.num)
RAbs(a)    == [num |-> Abs(a.num), den |-> a.den]
RZero(a)   == a.num = 0
\* The float nan that numpy yields for 0.0 / 0.0.
RNaN       == [num |-> 0, den |-> 0]

(***************************************************************************)
(*                Python dicts: key/value pairs in insertion order         *)
(***************************************************************************)

DictKeys(d)      == [i \in DOMAIN d |-> d[i].k]
HasKey(d, key)   == \E i \in DOMAIN d : d[i].k = key
DictGet(d, key)  == d[CHOOSE i \in DOMAIN d : d[i].k = key].v
\* d.get(key, default)
DictGetOr(d, key, default) == IF HasKey(d, key) THEN DictGet(d, key) ELSE default
\* d[key] = v for a key already present
DictSet(d, key, v) == [i \in DOMAIN d |-> IF d[i].k = key THEN [k |-> key, v |-> v] ELSE d[i]]
\* dict(zip(keys, values))
DictZip(keys, values) ==
    [i \in 1..Min(Len(keys), Len(values)) |-> [k |-> keys[i], v |-> values[i]]]


(***************************************************************************)
(*                    RegimeModel and RegimeModelEnsemble                  *)
(***************************************************************************)

\* ---- bounds of the ensemble model
MaxN     == 2   \* n_regimes of the ensemble: 1..MaxN; regime ids in the data: 0..MaxN-1
MaxDelta == 1   \* perturbation sizes: 0..MaxDelta

\* if len(regime_data) < 10: ... continue
MinSamples == 10

\* The numbers of rows a regime has in the data of a fit_all.
RowCounts == {MinSamples - 1, MinSamples}

\* The feature_cols a fit_all is called with.
SchemaChoices == {<<"x">>, <<"res_penetration", "net_import">>}

\* What Ridge.fit finds on a regime's rows: one coefficient per feature column
\* and an intercept. The rows determine it; it is drawn from these values
\* (y = 2x + 1 or y = -x on one column, y = 2a - b + 1 on several).
RidgeFits(feature_cols) ==
    {[coef_ |-> [i \in 1..Len(feature_cols) |-> IF i = 1 THEN 2 ELSE 0 - 1], intercept_ |-> 1]}
    \cup (IF Len(feature_cols) = 1
          THEN {[coef_ |-> [i \in 1..Len(feature_cols) |-> 0 - 1], intercept_ |-> 0]}
          ELSE {})

\* sklearn Ridge after fit on pd.DataFrame(X, columns=feature_cols): it records
\* the column names it was fit on (feature_names_in_).
Ridge(feature_cols, found) ==
    [tag |-> "Ridge", feature_names_in_ |-> feature_cols,
     coef_ |-> found.coef_, intercept_ |-> found.intercept_]

RECURSIVE Dot(_, _, _)
\* sum over the columns i..Len of coef_[i] * X[i]
Dot(coef_, X, i) ==
    IF i > Len(coef_) THEN I(0)
    ELSE RAdd(RMul(I(coef_[i]), X[i].v), Dot(coef_, X, i + 1))

\* A validation that only asks for the model's columns to be among those of X.
FeatureNamesAmong(ridge, X) == Range(ridge.feature_names_in_) \subseteq Range(DictKeys(X))

\* sklearn validates the column names of a DataFrame against feature_names_in_
\* (same names, same order) before it evaluates the linear model.
FeatureNamesMatch(ridge, X) == DictKeys(X) = ridge.feature_names_in_

\* Ridge.predict(X)[0] for a DataFrame X of one row.
RidgePredict(ridge, X) ==
    IF ~FeatureNamesMatch(ridge, X)
    THEN Raised("ValueError", "The feature names should match those that were passed during fit.")
    ELSE Returned(RAdd(I(ridge.intercept_), Dot(ridge.coef_, X, 1)))

\* RegimeModel.__init__ followed by RegimeModel.fit(X, y, feature_names).
RegimeModelFit(regime_id, feature_names, found, n_samples) ==
    [regime_id     |-> regime_id,
     regime_name   |-> "Regime_" \o ToString(regime_id),
     model         |-> Ridge(feature_names, found),
     feature_names |-> feature_names,
     coef          |-> DictZip(feature_names, found.coef_),
     intercept     |-> found.intercept_,
     metrics       |-> [n_samples |-> n_samples, intercept |-> found.intercept_]]

\* RegimeModel.predict(X)
RegimeModelPredict(m, X) ==
    IF m.model = None THEN Raised("ValueError", "Model not fitted")
    ELSE RidgePredict(m.model, X)

\* The state of one ensemble object.
EnsState == [n_regimes |-> ens_n_regimes, models |-> ens_models,
             feature_names |-> ens_feature_names, target_name |-> ens_target_name]

\* RegimeModelEnsemble.__init__(n_regimes); {} is the empty function.
EnsNew(n) == [n_regimes |-> n, models |-> <<>>, feature_names |-> None,
              target_name |-> None]

\* self.models[regime_id] = model
ModelsPut(models, regime_id, model) ==
    [r \in (DOMAIN models) \cup {regime_id} |->
        IF r = regime_id THEN model ELSE models[r]]

RECURSIVE FitAllLoop(_, _, _, _)
\* for regime_id in range(self.n_regimes): skip a regime with fewer than 10
\* rows, else fit a model and store it in self.models.
FitAllLoop(e, df, regime_id, summary) ==
    IF regime_id >= e.n_regimes THEN [state |-> e, out |-> Returned(summary)]
    ELSE LET n == IF regime_id \in DOMAIN df.rows THEN df.rows[regime_id] ELSE 0
         IN  IF n < MinSamples
             THEN FitAllLoop(e, df, regime_id + 1, summary)
             ELSE LET model == RegimeModelFit(regime_id, df.feature_cols,
                                              df.ridge[regime_id], n)
                  IN  FitAllLoop([e EXCEPT !.models = ModelsPut(@, regime_id, model)],
                                 df, regime_id + 1,
                                 ModelsPut(summary, regime_id, model.metrics))

\* RegimeModelEnsemble.fit_all(df, regime_col, target_col, feature_cols).
EnsFitAll(e, df) ==
    FitAllLoop([e EXCEPT !.feature_names = List(df.feature_cols),
                         !.target_name = Str(df.target_col)],
               df, 0, <<>>)

\* A predict that falls back to another regime's model when the regime has none.
EnsPredictAnyModel(e, regime_id, X) ==
    IF DOMAIN e.models = {}
    THEN Raised("ValueError", "No model for regime " \o ToString(regime_id))
    ELSE RegimeModelPredict(
            e.models[IF regime_id \in DOMAIN e.models THEN regime_id
                     ELSE CHOOSE r \in DOMAIN e.models : TRUE], X)

\* RegimeModelEnsemble.predict(regime_id, X)[0]
EnsPredict(e, regime_id, X) ==
    IF regime_id \notin DOMAIN e.models
    THEN Raised("ValueError", "No model for regime " \o ToString(regime_id))
    ELSE RegimeModelPredict(e.models[regime_id], X)


(***************************************************************************)
(*                               StressTester                              *)
(* Each operation yields what the caller receives (out) together with the  *)
(* objects it was handed as they are when it ends: the ensemble (ens), the *)
(* caller's base_state dict and the caller's perturbations dict.           *)
(***************************************************************************)

Effect(out, e, base_state, perturbations) ==
    [out |-> out, ens |-> e, base_state |-> base_state, perturbations |-> perturbations]

\* pd.DataFrame([base_state]): a one-row frame with copies of the dict's values.
DataFrameOf(base_state) == base_state

\* A shock applied in place: the caller's dict ends as the shocked state.
CallerDictAliased(base_state, X_shocked) == X_shocked

\* X_shocked = X_base.copy() is a frame of its own: the shocks written to it
\* reach neither X_base nor the dict the caller handed in.
CallerDictAfter(base_state, X_shocked) == base_state

\* A percentage taken against the signed baseline, abs() forgotten.
PctChangeSigned(delta_pred, y_base) ==
    IF ~RZero(y_base) THEN RMul(RDiv(delta_pred, y_base), I(100)) ELSE I(0)

\* pct_change = (delta_pred / abs(y_base)) * 100 if y_base != 0 else 0
PctChange(delta_pred, y_base) ==
    IF ~RZero(y_base) THEN RMul(RDiv(delta_pred, RAbs(y_base)), I(100)) ELSE I(0)

\* elasticity = (pct_change / 100) / (delta / base_state[feature])
\*              if base_state[feature] != 0 else 0
\* With delta = 0 the divisor is 0.0: the division of the Python int 0 (the
\* pct_change of a zero baseline) raises ZeroDivisionError, that of a numpy
\* float yields nan.
Elasticity(pct_change, delta, base_value, y_base) ==
    IF RZero(base_value) THEN Returned(I(0))
    ELSE IF RZero(RDiv(delta, base_value))
         THEN IF RZero(y_base)
              THEN Raised("ZeroDivisionError", "float division by zero")
              ELSE Returned(RNaN)
         ELSE Returned(RDiv(RDiv(pct_change, I(100)), RDiv(delta, base_value)))

\* stress_single_feature from its second statement on: base is what
\* self.regime_models.predict(regime_id, X_base) gave, e the ensemble now.
StressSingleAfterBase(e, regime_id, base_state, feature, delta, base) ==
    LET X_base == DataFrameOf(base_state)
    IN  IF base.kind = "raise" THEN Effect(base, e, base_state, <<>>)
        ELSE IF ~HasKey(X_base, feature)
        THEN Effect(Raised("KeyError", feature), e, base_state, <<>>)
        ELSE
        LET X_shocked == DictSet(X_base, feature, RAdd(DictGet(X_base, feature), delta))
            shocked   == EnsPredict(e, regime_id, X_shocked)
        IN  IF shocked.kind = "raise" THEN Effect(shocked, e, base_state, <<>>)
            ELSE
            LET y_base     == base.value
                y_shocked  == shocked.value
                delta_pred == RSub(y_shocked, y_base)
                pct_change == PctChange(delta_pred, y_base)
                elasticity == Elasticity(pct_change, delta, DictGet(base_state, feature), y_base)
            IN  IF elasticity.kind = "raise" THEN Effect(elasticity, e, base_state, <<>>)
                ELSE Effect(Returned(
                       [scenario          |-> <<feature, delta>>,
                        regime_id         |-> regime_id,
                        regime_name       |-> "Regime_" \o ToString(regime_id),
                        baseline_pred     |-> y_base,
                        shocked_pred      |-> y_shocked,
                        delta_pred        |-> delta_pred,
                        pct_change        |-> pct_change,
                        elasticity        |-> elasticity.value,
                        feature_shocked   |-> feature,
                        perturbation_size |-> delta,
                        base_state        |-> base_state,
                        shocked_state     |-> X_shocked]),
                     e, CallerDictAfter(base_state, X_shocked), <<>>)

\* StressTester.stress_single_feature(regime_id, base_state, feature, delta)
StressSingleFeature(e, regime_id, base_state, feature, delta) ==
    StressSingleAfterBase(e, regime_id, base_state, feature, delta,
                          EnsPredict(e, regime_id, DataFrameOf(base_state)))

RECURSIVE ApplyPerturbations(_, _, _)
\* for feature, delta in perturbations.items(): X_shocked[feature] += delta
\* A feature that is no column raises KeyError.
ApplyPerturbations(X, perturbations, i) ==
    IF i > Len(perturbations) THEN Returned(X)
    ELSE IF ~HasKey(X, perturbations[i].k) THEN Raised("KeyError", perturbations[i].k)
    ELSE ApplyPerturbations(
            DictSet(X, perturbations[i].k, RAdd(DictGet(X, perturbations[i].k), perturbations[i].v)),
            perturbations, i + 1)

\* An effect whose contribution is the coefficient alone, the delta forgotten.
IndividualEffectNoDelta(model, feature, delta, delta_pred) ==
    LET coef == I(DictGetOr(model.coef, feature, 0))
    IN  [coefficient  |-> coef,
         contribution |-> coef,
         pct_of_total |-> IF ~RZero(delta_pred)
                          THEN RMul(RDiv(RMul(coef, delta), delta_pred), I(100))
                          ELSE I(0)]

\* individual_effects[feature] of stress_combined
IndividualEffect(model, feature, delta, delta_pred) ==
    LET coef == I(DictGetOr(model.coef, feature, 0))
    IN  [coefficient  |-> coef,
         contribution |-> RMul(coef, delta),
         pct_of_total |-> IF ~RZero(delta_pred)
                          THEN RMul(RDiv(RMul(coef, delta), delta_pred), I(100))
                          ELSE I(0)]

\* stress_combined from its second statement on: base is what
\* self.regime_models.predict(regime_id, X_base) gave, e the ensemble now.
StressCombinedAfterBase(e, regime_id, base_state, perturbations, base) ==
    LET X_base == DataFrameOf(base_state)
    IN  IF base.kind = "raise" THEN Effect(base, e, base_state, perturbations)
        ELSE
        LET X_shocked == ApplyPerturbations(X_base, perturbations, 1)
        IN  IF X_shocked.kind = "raise" THEN Effect(X_shocked, e, base_state, perturbations)
            ELSE
            LET shocked == EnsPredict(e, regime_id, X_shocked.value)
            IN  IF shocked.kind = "raise" THEN Effect(shocked, e, base_state, perturbations)
                ELSE
                LET y_base     == base.value
                    y_shocked  == shocked.value
                    delta_pred == RSub(y_shocked, y_base)
                    model      == e.models[regime_id]
                IN  Effect(Returned(
                       [scenario           |-> "Combined Shock",
                        regime_id          |-> regime_id,
                        regime_name        |-> "Regime_" \o ToString(regime_id),
                        baseline_pred      |-> y_base,
                        shocked_pred       |-> y_shocked,
                        delta_pred         |-> delta_pred,
                        pct_change         |-> PctChange(delta_pred, y_base),
                        perturbations      |-> perturbations,
                        individual_effects |->
                            [i \in DOMAIN perturbations |->
                                [k |-> perturbations[i].k,
                                 v |-> IndividualEffect(model, perturbations[i].k,
                                                        perturbations[i].v, delta_pred)]],
                        base_state         |-> base_state,
                        shocked_state      |-> X_shocked.value]),
                     e, CallerDictAfter(base_state, X_shocked.value), perturbations)

\* StressTester.stress_combined(regime_id, base_state, perturbations)
StressCombined(e, regime_id, base_state, perturbations) ==
    StressCombinedAfterBase(e, regime_id, base_state, perturbations,
                            EnsPredict(e, regime_id, DataFrameOf(base_state)))


MaxPoints == 3  \* n_points of sensitivity_curve: 0..MaxPoints

\* A grid that stops one step short of hi (endpoint = False).
LinspaceNoEndpoint(lo, hi, n, i) ==
    IF n = 1 THEN lo
    ELSE RAdd(lo, RMul(I(i), RDiv(RSub(hi, lo), I(n))))

\* np.linspace(lo, hi, n)[i], i in 0..n-1: lo alone when n = 1.
Linspace(lo, hi, n, i) ==
    IF n = 1 THEN lo
    ELSE RAdd(lo, RMul(I(i), RDiv(RSub(hi, lo), I(n - 1))))

RECURSIVE CurveRows(_, _, _, _, _, _, _, _)
\* The loop of sensitivity_curve over deltas[i..n-1]; rows are appended in order.
CurveRows(e, regime_id, base_state, feature, delta_range, n, i, results) ==
    IF i >= n THEN Returned(results)
    ELSE LET delta == Linspace(delta_range[1], delta_range[2], n, i)
             X_base == DataFrameOf(base_state)
         IN  IF ~HasKey(X_base, feature) THEN Raised("KeyError", feature)
             ELSE
             LET X_shocked == DictSet(X_base, feature, RAdd(DictGet(X_base, feature), delta))
                 shocked   == EnsPredict(e, regime_id, X_shocked)
                 y_base    == EnsPredict(e, regime_id, X_base).value
             IN  IF shocked.kind = "raise" THEN shocked
                 ELSE CurveRows(e, regime_id, base_state, feature, delta_range, n, i + 1,
                        Append(results,
                          [feature_value    |-> RAdd(DictGet(base_state, feature), delta),
                           perturbation     |-> delta,
                           predicted_output |-> shocked.value,
                           delta_pred       |-> RSub(shocked.value, y_base),
                           baseline         |-> y_base,
                           pct_change       |-> PctChange(RSub(shocked.value, y_base), y_base)]))

\* StressTester.sensitivity_curve(regime_id, base_state, feature, delta_range, n_points)
SensitivityCurve(e, regime_id, base_state, feature, delta_range, n_points) ==
    LET base == EnsPredict(e, regime_id, DataFrameOf(base_state))
    IN  IF base.kind = "raise" THEN Effect(base, e, base_state, <<>>)
        ELSE Effect(CurveRows(e, regime_id, base_state, feature, delta_range, n_points, 0, <<>>),
                    e, base_state, <<>>)

RECURSIVE SortedIds(_)
\* sorted(self.regime_models.models.keys())
SortedIds(ids) ==
    IF ids = {} THEN <<>>
    ELSE LET least == CHOOSE r \in ids : \A q \in ids : r <= q
         IN  <<least>> \o SortedIds(ids \ {least})

RECURSIVE ComparisonRows(_, _, _, _, _, _)
\* The loop of regime_comparison over the regime ids still to do.
ComparisonRows(e, ids, base_state, feature, delta, results) ==
    IF ids = <<>> THEN Effect(Returned(results), e, base_state, <<>>)
    ELSE LET r == StressSingleFeature(e, Head(ids), base_state, feature, delta)
         IN  IF r.out.kind = "raise" THEN r
             ELSE ComparisonRows(r.ens, Tail(ids), r.base_state, feature, delta,
                                 Append(results, r.out.value))

\* StressTester.regime_comparison(base_state, feature, delta)
RegimeComparison(e, base_state, feature, delta) ==
    ComparisonRows(e, SortedIds(DOMAIN e.models), base_state, feature, delta, <<>>)

\* StressTester.scenario_library(): name and perturbations of each scenario.
Pert(feature, delta) == [k |-> feature, v |-> I(delta)]
ScenarioLibrary ==
    {[name |-> "Renewable Surge",   perturbations |-> <<Pert("res_penetration", 15)>>],
     [name |-> "Congestion Crisis", perturbations |-> <<Pert("interconnect_saturation", 30)>>],
     [name |-> "Import Dependency", perturbations |-> <<Pert("net_import", 500)>>],
     [name |-> "Volatility Spike",  perturbations |-> <<Pert("price_volatility", 50)>>],
     [name |-> "Perfect Storm",
      perturbations |-> <<Pert("res_penetration", 0 - 10), Pert("net_import", 400),
                          Pert("price_volatility", 30)>>]}

RECURSIVE ScenarioRows(_, _, _, _, _)
\* The loop of run_scenario over the regime ids still to do: results[rid] = ...
ScenarioRows(e, ids, base_state, perturbations, results) ==
    IF ids = <<>> THEN Effect(Returned(results), e, base_state, perturbations)
    ELSE LET r == StressCombined(e, Head(ids), base_state, perturbations)
         IN  IF r.out.kind = "raise" THEN r
             ELSE ScenarioRows(r.ens, Tail(ids), r.base_state, r.perturbations,
                               ModelsPut(results, Head(ids), r.out.value))

\* A run_scenario that tests the truth value of regime_id: 0 counts as None.
RunScenarioTruthy(e, scenario, base_state, regime_id) ==
    IF regime_id # {} /\ regime_id # {0}
    THEN StressCombined(e, CHOOSE r \in regime_id : TRUE, base_state, scenario.perturbations)
    ELSE ScenarioRows(e, SortedIds(DOMAIN e.models), base_state, scenario.perturbations, <<>>)

\* StressTester.run_scenario(scenario, base_state, regime_id); regime_id is the
\* set {id}, or {} for None.
RunScenario(e, scenario, base_state, regime_id) ==
    IF regime_id # {}
    THEN StressCombined(e, CHOOSE r \in regime_id : TRUE, base_state, scenario.perturbations)
    ELSE ScenarioRows(e, SortedIds(DOMAIN e.models), base_state, scenario.perturbations, <<>>)

\* a < b for rationals
RLess(a, b) == a.num * b.den < b.num * a.den

\* sorted(effects.items(), key=lambda x: abs(x[1]['contribution']), reverse=True):
\* a stable sort, so equal keys keep the order of the dict.
SortedEffects(effects) ==
    LET key(i)  == RAbs(effects[i].v.contribution)
        rank(i) == Cardinality({j \in DOMAIN effects :
                        RLess(key(i), key(j)) \/ (key(j) = key(i) /\ j < i)})
    IN  [p \in DOMAIN effects |-> effects[CHOOSE i \in DOMAIN effects : rank(i) = p - 1]]

\* StressTester.narrative(outcome): the parts the sentence is built from.
Narrative(outcome) ==
    IF ~({"regime_name", "delta_pred", "pct_change"} \subseteq DOMAIN outcome)
    THEN Raised("KeyError", "regime_name")
    ELSE Returned(
           [regime     |-> outcome.regime_name,
            magnitude  |-> RAbs(outcome.delta_pred),
            pct_change |-> outcome.pct_change,
            drivers    |-> IF "individual_effects" \in DOMAIN outcome
                           THEN SubSeq(DictKeys(SortedEffects(outcome.individual_effects)), 1,
                                       Min(2, Len(outcome.individual_effects)))
                           ELSE <<>>])


(***************************************************************************)
(*              The ensemble's and the tester's callers: actions           *)
(***************************************************************************)

\* ---- the inputs the calls are tried on
RegimeIds == 0..MaxN
Features  == {"x", "res_penetration", "net_import"}
Deltas    == {I(d) : d \in 0..MaxDelta}
Entry(key, n) == [k |-> key, v |-> I(n)]
\* base_state dicts: the two schemas, a schema in another column order, and a
\* schema with one more column.
BaseStates ==
    {<<Entry("x", 5)>>, <<Entry("x", 0)>>,
     <<Entry("res_penetration", 5), Entry("net_import", 0)>>,
     <<Entry("res_penetration", 0), Entry("net_import", 5)>>,
     <<Entry("net_import", 5), Entry("res_penetration", 5)>>,
     <<Entry("x", 5), Entry("net_import", 0)>>}
\* perturbations dicts of at most two features
PertFeatures == <<"x", "res_penetration", "net_import">>
Perturbations ==
    {<<>>}
    \cup {<<[k |-> PertFeatures[i], v |-> d]>> : i \in DOMAIN PertFeatures, d \in Deltas}
    \cup {<<[k |-> PertFeatures[ij[1]], v |-> d1], [k |-> PertFeatures[ij[2]], v |-> d2]>> :
            ij \in {p \in (DOMAIN PertFeatures) \X (DOMAIN PertFeatures) : p[1] < p[2]},
            d1 \in Deltas, d2 \in Deltas}
\* scenarios: the library, and custom ones of no and of two perturbations
Scenarios ==
    ScenarioLibrary
    \cup {[name |-> "custom", perturbations |-> p] :
            p \in {q \in Perturbations : Len(q) = 0 \/ (Len(q) = 2 /\ q[1].v = q[2].v)}}
DeltaRanges == {<<I(0 - 1), I(MaxDelta)>>}
Frames ==
    [feature_cols : SchemaChoices, target_col : {"price"},
     rows : [0..(MaxN - 1) -> RowCounts]]

StressOps  == {"stress_single_feature", "stress_combined", "sensitivity_curve",
               "regime_comparison", "scenario_library", "run_scenario", "narrative"}
RegimeOps  == {"predict", "stress_single_feature", "stress_combined",
               "sensitivity_curve", "run_scenario"}

\* The tester exists once StressTester(ensemble) has run.
NoTester == [tag |-> "no tester"]

\* A caller makes one call at a time: it receives what the call returned or
\* raised (call.out; call.regime_id and call.features are the regime id and the
\* perturbed features the call named; a fit_all call also keeps call.rows, the
\* rows per regime of the data it was given) and then goes on (Idle).
Idle == [op |-> "idle", regime_id |-> {}, features |-> {}, out |-> Returned(None),
         inputs_unchanged |-> TRUE]

\* A call of the tester (or of predict) ends: the objects it was handed are
\* stored back as it left them, and the caller keeps what it received.
CallEnds(op, regime_id, features, r, base_state, perturbations) ==
    /\ call.op = "idle"
    /\ ens_n_regimes' = r.ens.n_regimes
    /\ ens_models' = r.ens.models
    /\ ens_feature_names' = r.ens.feature_names
    /\ ens_target_name' = r.ens.target_name
    /\ call' = [op |-> op, regime_id |-> regime_id, features |-> features, out |-> r.out,
                inputs_unchanged |-> (r.base_state = base_state
                                      /\ r.perturbations = perturbations)]
    /\ UNCHANGED <<st_feature_names, det_vars, ext_vars>>

FitAll ==
    \E df \in Frames :
    \E ridge \in [0..(MaxN - 1) -> RidgeFits(df.feature_cols)] :
        LET r == EnsFitAll(EnsState, [feature_cols |-> df.feature_cols,
                                      target_col |-> df.target_col,
                                      rows |-> df.rows, ridge |-> ridge])
        IN  /\ call.op = "idle"
            /\ ens_n_regimes' = r.state.n_regimes
            /\ ens_models' = r.state.models
            /\ ens_feature_names' = r.state.feature_names
            /\ ens_target_name' = r.state.target_name
            /\ call' = [op |-> "fit_all", regime_id |-> {}, features |-> {}, out |-> r.out,
                        inputs_unchanged |-> TRUE, rows |-> df.rows]
            /\ UNCHANGED <<st_feature_names, det_vars, ext_vars>>

\* StressTester.__init__(regime_models): keeps the ensemble and its feature_names.
NewStressTester ==
    /\ call.op = "idle"
    /\ st_feature_names' = ens_feature_names
    /\ call' = [op |-> "StressTester", regime_id |-> {}, features |-> {},
                out |-> Returned(None), inputs_unchanged |-> TRUE]
    /\ UNCHANGED <<ens_vars, det_vars, ext_vars>>

Predict ==
    \E regime_id \in RegimeIds, X \in BaseStates :
        CallEnds("predict", {regime_id}, {},
                 Effect(EnsPredict(EnsState, regime_id, X), EnsState, X, <<>>), X, <<>>)

StressSingle ==
    \E regime_id \in RegimeIds, base_state \in BaseStates, feature \in Features,
       delta \in Deltas :
        /\ st_feature_names # NoTester
        /\ CallEnds("stress_single_feature", {regime_id},
                    {feature},
                    StressSingleFeature(EnsState, regime_id, base_state, feature, delta),
                    base_state, <<>>)

StressMany ==
    \E regime_id \in RegimeIds, base_state \in BaseStates, perturbations \in Perturbations :
        /\ st_feature_names # NoTester
        /\ CallEnds("stress_combined", {regime_id},
                    Range(DictKeys(perturbations)),
                    StressCombined(EnsState, regime_id, base_state, perturbations),
                    base_state, perturbations)

Curve ==
    \E regime_id \in RegimeIds, base_state \in BaseStates, feature \in Features,
       delta_range \in DeltaRanges, n_points \in 0..MaxPoints :
        /\ st_feature_names # NoTester
        /\ CallEnds("sensitivity_curve", {regime_id},
                    {feature},
                    SensitivityCurve(EnsState, regime_id, base_state, feature,
                                     delta_range, n_points),
                    base_state, <<>>)

Comparison ==
    \E base_state \in BaseStates, feature \in Features, delta \in Deltas :
        /\ st_feature_names # NoTester
        /\ CallEnds("regime_comparison", {},
                    {feature},
                    RegimeComparison(EnsState, base_state, feature, delta),
                    base_state, <<>>)

Library ==
    /\ st_feature_names # NoTester
    /\ CallEnds("scenario_library", {}, {},
                Effect(Returned(ScenarioLibrary), EnsState, <<>>, <<>>), <<>>, <<>>)

Scenario ==
    \E scenario \in Scenarios, base_state \in BaseStates,
       regime_id \in {{}} \cup {{r} : r \in RegimeIds} :
        /\ st_feature_names # NoTester
        /\ CallEnds("run_scenario", regime_id,
                    Range(DictKeys(scenario.perturbations)),
                    RunScenario(EnsState, scenario, base_state, regime_id),
                    base_state, scenario.perturbations)

\* narrative(outcome) on the result the caller holds from a single-regime call.
Narrate ==
    /\ st_feature_names # NoTester
    /\ call.out.kind = "ok"
    /\ \/ call.op \in {"stress_single_feature", "stress_combined"}
       \/ (call.op = "run_scenario" /\ call.regime_id # {})
    /\ LET r == Effect(Narrative(call.out.value), EnsState, <<>>, <<>>)
       IN  /\ ens_n_regimes' = r.ens.n_regimes
           /\ ens_models' = r.ens.models
           /\ ens_feature_names' = r.ens.feature_names
           /\ ens_target_name' = r.ens.target_name
           /\ call' = [op |-> "narrative", regime_id |-> {}, features |-> {}, out |-> r.out,
                       inputs_unchanged |-> (r.base_state = <<>> /\ r.perturbations = <<>>)]
           /\ UNCHANGED <<st_feature_names, det_vars, ext_vars>>

Continue ==
    /\ call.op # "idle"
    /\ call' = Idle
    /\ UNCHANGED <<ens_vars, st_feature_names, det_vars, ext_vars>>

EnsInit(n) ==
    /\ ens_n_regimes = n
    /\ ens_models = <<>>
    /\ ens_feature_names = None
    /\ ens_target_name = None
    /\ st_feature_names = NoTester
    /\ call = Idle

(***************************************************************************)
(*                 RegimeModelEnsemble.save and load                       *)
(* ens_dir is the directory: metadata.pkl (or None while it does not exist)*)
(* and the regime_<id>.pkl files; saved_by remembers the ensemble that the *)
(* last save wrote.                                                        *)
(***************************************************************************)

\* pickle.dump / pickle.load of an object: the file holds its attributes.
Pickle(obj)    == [pickle |-> obj]
Unpickle(file) == file.pickle

\* RegimeModelEnsemble.save(dirpath): one file per model the ensemble holds,
\* then metadata.pkl; the files already in the directory are not removed.
EnsSave(e, dir) ==
    [metadata |-> Pickle([feature_names |-> e.feature_names,
                          target_name   |-> e.target_name,
                          n_regimes     |-> e.n_regimes]),
     files    |-> [r \in (DOMAIN dir.files) \cup (DOMAIN e.models) |->
                      IF r \in DOMAIN e.models THEN Pickle(e.models[r]) ELSE dir.files[r]],
     saved_by |-> e]

RECURSIVE EnsLoadLoop(_, _, _)
\* for regime_id in range(self.n_regimes): if filepath.exists(): load it.
EnsLoadLoop(e, dir, regime_id) ==
    IF regime_id >= e.n_regimes THEN e
    ELSE IF regime_id \in DOMAIN dir.files
         THEN EnsLoadLoop([e EXCEPT !.models =
                              ModelsPut(@, regime_id, Unpickle(dir.files[regime_id]))],
                          dir, regime_id + 1)
         ELSE EnsLoadLoop(e, dir, regime_id + 1)

\* RegimeModelEnsemble.load(dirpath).
EnsLoad(e, dir) ==
    IF dir.metadata = None
    THEN [state |-> e, out |-> Raised("FileNotFoundError", "metadata.pkl")]
    ELSE LET metadata == Unpickle(dir.metadata)
         IN  [state |-> EnsLoadLoop([e EXCEPT !.feature_names = metadata.feature_names,
                                              !.target_name   = metadata.target_name,
                                              !.n_regimes     = metadata.n_regimes],
                                    dir, 0),
              out   |-> Returned(None)]

\* ---- the actions: one ensemble object at a time and its directory
\* The object's fields become those of e.
SetEnsemble(e) ==
    /\ ens_n_regimes' = e.n_regimes
    /\ ens_models' = e.models
    /\ ens_feature_names' = e.feature_names
    /\ ens_target_name' = e.target_name

PersistOthers == <<det_vars, st_feature_names, callers, sv_rows, sv_out, regime_states, pr_call, api_vars>>

\* ensemble = RegimeModelEnsemble(n_regimes): a new object, e.g. of a new run
\* of the program; the directory stays.
NewEnsemble ==
    \E n \in 1..MaxN :
        /\ call.op = "idle"
        /\ SetEnsemble(EnsNew(n))
        /\ call' = [op |-> "RegimeModelEnsemble", regime_id |-> {}, features |-> {},
                    out |-> Returned(None), inputs_unchanged |-> TRUE]
        /\ UNCHANGED <<ens_dir, PersistOthers>>

EnsSaveAct ==
    /\ call.op = "idle"
    /\ ens_dir' = EnsSave(EnsState, ens_dir)
    /\ call' = [op |-> "save", regime_id |-> {}, features |-> {},
                out |-> Returned(None), inputs_unchanged |-> TRUE]
    /\ UNCHANGED <<ens_vars, PersistOthers>>

\* load; the call record keeps whether the object was as constructed (fresh).
EnsLoadAct ==
    LET r == EnsLoad(EnsState, ens_dir)
    IN  /\ call.op = "idle"
        /\ SetEnsemble(r.state)
        /\ call' = [op |-> "load", regime_id |-> {}, features |-> {}, out |-> r.out,
                    inputs_unchanged |-> TRUE,
                    fresh |-> (EnsState = EnsNew(ens_n_regimes))]
        /\ UNCHANGED <<ens_dir, PersistOthers>>

(***************************************************************************)
(*          Several callers of one tester over one fitted ensemble         *)
(* A stress call reads the ensemble twice (the baseline and the shocked    *)
(* prediction); between the two reads the other callers may run.           *)
(***************************************************************************)

Callers == {"a", "b"}

\* The calls the callers issue: predict, stress_single_feature and
\* stress_combined, on every regime id, for a state of each schema.
ConcCalls ==
    LET one == <<Entry("x", 5)>>
        two == <<Entry("res_penetration", 5), Entry("net_import", 0)>>
    IN  UNION {
          {[op |-> "predict", regime_id |-> r, base_state |-> X,
            feature |-> "", delta |-> I(0), perturbations |-> <<>>] : X \in {one, two}}
          \cup
          {[op |-> "stress_single_feature", regime_id |-> r, base_state |-> one,
            feature |-> "x", delta |-> I(1), perturbations |-> <<>>],
           [op |-> "stress_single_feature", regime_id |-> r, base_state |-> two,
            feature |-> "res_penetration", delta |-> I(1), perturbations |-> <<>>],
           [op |-> "stress_combined", regime_id |-> r, base_state |-> one,
            feature |-> "", delta |-> I(0), perturbations |-> <<[k |-> "x", v |-> I(1)]>>],
           [op |-> "stress_combined", regime_id |-> r, base_state |-> two,
            feature |-> "", delta |-> I(0),
            perturbations |-> <<[k |-> "res_penetration", v |-> I(1)],
                                [k |-> "net_import", v |-> I(1)]>>]}
          : r \in RegimeIds}

\* A predict that keeps its last prediction as the model's intercept.
EnsAfterPredictCaching(e, regime_id, X) ==
    IF regime_id \in DOMAIN e.models /\ EnsPredict(e, regime_id, X).kind = "ok"
    THEN [e EXCEPT !.models[regime_id].intercept = @ + 1,
                   !.models[regime_id].model.intercept_ = @ + 1]
    ELSE e

\* The ensemble after predict(regime_id, X): predict and Ridge.predict read the
\* fitted parameters and assign nothing.
EnsAfterPredict(e, regime_id, X) ==
    e

\* The call a caller runs when nobody else does.
RunAlone(e, req) ==
    CASE req.op = "predict" ->
            EnsPredict(e, req.regime_id, req.base_state)
      [] req.op = "stress_single_feature" ->
            StressSingleFeature(e, req.regime_id, req.base_state, req.feature, req.delta).out
      [] OTHER ->
            StressCombined(e, req.regime_id, req.base_state, req.perturbations).out

IdleCaller == [pc |-> "idle", req |-> None, ens0 |-> None, base |-> None, out |-> None]

\* A caller issues a call; ens0 is the ensemble the call was issued on.
ConcBegin(c) ==
    \E req \in ConcCalls :
        /\ callers[c].pc = "idle"
        /\ callers' = [callers EXCEPT ![c] = [pc |-> "base", req |-> req, ens0 |-> EnsState,
                                               base |-> None, out |-> None]]
        /\ UNCHANGED <<ens_vars, st_vars, det_vars, ens_dir, sv_rows, sv_out,
                       regime_states, pr_call, api_vars>>

\* self.regime_models.predict(regime_id, X_base): all of predict, and the
\* first read of a stress call.
ConcBaseline(c) ==
    /\ callers[c].pc = "base"
    /\ LET req == callers[c].req
           X   == DataFrameOf(req.base_state)
           b   == EnsPredict(EnsState, req.regime_id, X)
       IN  /\ SetEnsemble(EnsAfterPredict(EnsState, req.regime_id, X))
           /\ callers' = [callers EXCEPT ![c] =
                            IF req.op = "predict"
                            THEN [@ EXCEPT !.pc = "done", !.out = b]
                            ELSE [@ EXCEPT !.pc = "shock", !.base = b]]
    /\ UNCHANGED <<st_vars, det_vars, ens_dir, sv_rows, sv_out, regime_states, pr_call, api_vars>>

\* The rest of the stress call: the shock, the second read, the result.
ConcShocked(c) ==
    /\ callers[c].pc = "shock"
    /\ LET req == callers[c].req
           r   == IF req.op = "stress_single_feature"
                  THEN StressSingleAfterBase(EnsState, req.regime_id, req.base_state,
                                             req.feature, req.delta, callers[c].base)
                  ELSE StressCombinedAfterBase(EnsState, req.regime_id, req.base_state,
                                               req.perturbations, callers[c].base)
       IN  /\ SetEnsemble(r.ens)
           /\ callers' = [callers EXCEPT ![c] = [@ EXCEPT !.pc = "done", !.out = r.out]]
    /\ UNCHANGED <<st_vars, det_vars, ens_dir, sv_rows, sv_out, regime_states, pr_call, api_vars>>

\* The caller takes the result and is free for its next call.
ConcReturn(c) ==
    /\ callers[c].pc = "done"
    /\ callers' = [callers EXCEPT ![c] = IdleCaller]
    /\ UNCHANGED <<ens_vars, st_vars, det_vars, ens_dir, sv_rows, sv_out,
                   regime_states, pr_call, api_vars>>

\* One ensemble after a fit_all that fitted some regime, a tester on it, and
\* the callers about to start.
ConcInit ==
    /\ \E n \in 1..MaxN, df \in Frames :
       \E ridge \in [0..(MaxN - 1) -> RidgeFits(df.feature_cols)] :
          LET e == EnsFitAll(EnsNew(n), [feature_cols |-> df.feature_cols,
                                         target_col |-> df.target_col,
                                         rows |-> df.rows, ridge |-> ridge]).state
          IN  /\ DOMAIN e.models # {}
              /\ ens_n_regimes = e.n_regimes
              /\ ens_models = e.models
              /\ ens_feature_names = e.feature_names
              /\ ens_target_name = e.target_name
              /\ st_feature_names = e.feature_names
    /\ call = Idle
    /\ callers = [c \in Callers |-> IdleCaller]
    /\ ens_dir = EmptyDir
    /\ sv_rows = <<>> /\ sv_out = None /\ regime_states = <<>> /\ pr_call = None
    /\ ApiInit

(***************************************************************************)
(*     StressTester calls with the arguments kept beside the result        *)
(* call is [op, args, out]: what the caller passed and what it received.   *)
(***************************************************************************)

\* delta_range arguments: ascending, descending, and of one value.
CurveRanges == DeltaRanges \cup {<<I(0), I(0)>>, <<I(MaxDelta), I(0 - 1)>>}

\* A call r of the tester with arguments args ends.
TesterCallEnds(op, args, r) ==
    /\ call.op = "idle"
    /\ st_feature_names # NoTester
    /\ ens_n_regimes' = r.ens.n_regimes
    /\ ens_models' = r.ens.models
    /\ ens_feature_names' = r.ens.feature_names
    /\ ens_target_name' = r.ens.target_name
    /\ call' = [op |-> op, args |-> args, out |-> r.out]
    /\ UNCHANGED <<st_feature_names, det_vars, ext_vars>>

StressSingleFeatureCall ==
    \E regime_id \in RegimeIds, base_state \in BaseStates, feature \in Features,
       delta \in Deltas :
        TesterCallEnds("stress_single_feature",
                       [regime_id |-> regime_id, base_state |-> base_state,
                        feature |-> feature, delta |-> delta],
                       StressSingleFeature(EnsState, regime_id, base_state, feature, delta))

SensitivityCurveCall ==
    \E regime_id \in RegimeIds, base_state \in BaseStates, feature \in Features,
       delta_range \in CurveRanges, n_points \in 0..MaxPoints :
        TesterCallEnds("sensitivity_curve",
                       [regime_id |-> regime_id, base_state |-> base_state,
                        feature |-> feature, delta_range |-> delta_range,
                        n_points |-> n_points],
                       SensitivityCurve(EnsState, regime_id, base_state, feature,
                                        delta_range, n_points))

RegimeComparisonCall ==
    \E base_state \in BaseStates, feature \in Features, delta \in Deltas :
        TesterCallEnds("regime_comparison",
                       [base_state |-> base_state, feature |-> feature, delta |-> delta],
                       RegimeComparison(EnsState, base_state, feature, delta))

RunScenarioCall ==
    \E scenario \in Scenarios, base_state \in BaseStates,
       regime_id \in {{}} \cup {{r} : r \in RegimeIds} :
        TesterCallEnds("run_scenario",
                       [scenario |-> scenario, base_state |-> base_state,
                        regime_id |-> regime_id],
                       RunScenario(EnsState, scenario, base_state, regime_id))

(***************************************************************************)
(*        StateVariableCompute (modules_1_state_variables.py)              *)
(* sv_rows is the generation_actual table: rows (time, bidding_zone_mrid,  *)
(* psr_type, actual_generation_mw), one per key (time, zone, psr_type).    *)
(* pandas floats are rationals, with 1/0, -1/0 for inf, -inf and 0/0 nan.  *)
(***************************************************************************)

\* ---- bound of the gauge model
MaxHours == 2   \* hours (timestamps) of the window: 1..MaxHours

RENEWABLE_TYPES == {"B17", "B18", "B19", "B20", "B09", "B11", "B12",
                    "50HERTZ_WIND", "50HERTZ_WIND_OFFSHORE", "50HERTZ_WIND_ONSHORE",
                    "AMPRION_WIND_ONSHORE", "TENNET_WIND", "TENNET_WIND_OFFSHORE",
                    "TENNET_WIND_ONSHORE", "TRANSNET_WIND"}
FOSSIL_TYPES    == {"B01", "B04", "B05", "B06", "B07", "B08"}
NUCLEAR_TYPES   == {"B14", "B15", "B16"}

\* ZONE_MAP.get(zone_mrid, zone_mrid)
ZoneCode(zone_mrid) ==
    CASE zone_mrid = "10YGB----------A" -> "GB"
      [] zone_mrid = "10YES-REE------0" -> "ES"
      [] zone_mrid = "10YIT-GRTN-----B" -> "IT"
      [] zone_mrid = "10YFR-RTE------C" -> "FR"
      [] OTHER -> zone_mrid

\* ZONE_CAPACITY.get(zone_code, 100000)
Capacity(zone_code) ==
    CASE zone_code = "DE" -> 180000
      [] zone_code = "FR" -> 140000
      [] zone_code = "GB" -> 110000
      [] zone_code = "ES" -> 100000
      [] zone_code = "IT" -> 95000
      [] OTHER -> 100000

\* _categorize_psr
CategorizePsr(psr_type) ==
    IF psr_type \in RENEWABLE_TYPES THEN "renewable"
    ELSE IF psr_type \in FOSSIL_TYPES THEN "fossil"
    ELSE IF psr_type \in NUCLEAR_TYPES THEN "nuclear"
    ELSE "other"

\* ---- float arithmetic of pandas on these values
RLeq(a, b) == a.num * b.den <= b.num * a.den
\* a / b on float columns: x/0 is inf or -inf, 0/0 is nan, no exception.
PandasDiv(a, b) ==
    IF b.num # 0 THEN RDiv(a, b)
    ELSE IF a.num = 0 THEN RNaN
    ELSE [num |-> IF a.num > 0 THEN 1 ELSE 0 - 1, den |-> 0]
\* x * k for a finite k > 0
PandasTimes(x, k) == IF x.den = 0 THEN x ELSE RMul(x, I(k))
\* .fillna(0): nan becomes 0; inf and -inf stay.
FillNa0(x) == IF x = RNaN THEN I(0) ELSE x
\* .clip(lower, upper) of a finite value
Clip(x, lower, upper) ==
    IF RLeq(x, lower) THEN lower ELSE IF RLeq(upper, x) THEN upper ELSE x

\* (res_gen / result['total_generation_mw'] * 100).fillna(0)
ResPenetration(res_gen, total) ==
    FillNa0(PandasTimes(PandasDiv(res_gen, total), 100))

\* ---- the table rows and the frames
\* actual_generation_mw is nullable: a reading is a number or NULL (nan).
Mw(v)  == [null |-> FALSE, mw |-> v]
NullMw == [null |-> TRUE, mw |-> 0]

RECURSIVE SumMw(_)
\* .sum() of the readings of a set of rows; nan is skipped.
SumMw(rows) ==
    IF rows = {} THEN 0
    ELSE LET r == CHOOSE x \in rows : TRUE
         IN  (IF r.reading.null THEN 0 ELSE r.reading.mw) + SumMw(rows \ {r})

RECURSIVE SortedTimes(_)
\* The group keys in ascending order (groupby sorts them).
SortedTimes(times) ==
    IF times = {} THEN <<>>
    ELSE LET t == CHOOSE x \in times : \A y \in times : x <= y
         IN  <<t>> \o SortedTimes(times \ {t})

\* Times that only keep the hours with some generation.
GroupTimesNonZero(df) ==
    SortedTimes({r.time : r \in {x \in df : SumMw({y \in df : y.time = x.time}) # 0}})

\* The index of agg: one entry per distinct time of df, ascending.
GroupTimes(df) ==
    SortedTimes({r.time : r \in df})

\* _fetch_generation_data: the rows of the zone (the window takes all hours).
FetchGenerationData(table, zone_mrid) ==
    {r \in table : r.bidding_zone_mrid = zone_mrid}

\* rolling(window=24).std(): nan until 24 rows are in the window.
RollingWindow == 24
RollingStd(totals, i) ==
    IF i < RollingWindow THEN RNaN
    ELSE [tag |-> "std", of |-> [j \in 1..RollingWindow |-> totals[i - RollingWindow + j]]]

\* The pd.DataFrame() returned for no data.
EmptyFrame == <<>>

\* StateVariableCompute.compute_for_zone(zone_mrid, start_date, end_date)
ComputeForZone(table, zone_mrid) ==
    LET df == FetchGenerationData(table, zone_mrid)
    IN  IF df = {} THEN EmptyFrame
        ELSE
        LET zone_code  == ZoneCode(zone_mrid)
            capacity   == Capacity(zone_code)
            times      == GroupTimes(df)
            total(t)   == I(SumMw({r \in df : r.time = t}))
            res_gen(t) == I(SumMw({r \in df : r.time = t
                                              /\ CategorizePsr(r.psr_type) = "renewable"}))
            max_demand == Rat(capacity * 85, 100)
            net_import(t) == Clip(RSub(max_demand, total(t)), I(0 - 5000), I(5000))
            totals     == [i \in DOMAIN times |-> total(times[i])]
        IN  [i \in DOMAIN times |->
                [time                    |-> times[i],
                 zone                    |-> zone_code,
                 load_tightness          |-> FillNa0(RDiv(total(times[i]), I(capacity))),
                 res_penetration         |-> FillNa0(ResPenetration(res_gen(times[i]),
                                                                    total(times[i]))),
                 net_import              |-> FillNa0(net_import(times[i])),
                 interconnect_saturation |->
                     FillNa0(Clip(PandasTimes(RDiv(RAbs(net_import(times[i])), I(3000)), 100),
                                  I(0), I(100))),
                 price_volatility        |-> FillNa0(FillNa0(RollingStd(totals, i)))]]

\* The five gauge columns of a row.
Gauges(row) == [load_tightness |-> row.load_tightness,
                res_penetration |-> row.res_penetration,
                net_import |-> row.net_import,
                interconnect_saturation |-> row.interconnect_saturation,
                price_volatility |-> row.price_volatility]

RECURSIVE SaveRows(_, _, _)
\* for _, row in df.iterrows(): INSERT ... ON CONFLICT (time, zone) DO UPDATE
\* SET load_tightness = EXCLUDED.load_tightness
SaveRows(table, df, i) ==
    IF i > Len(df) THEN table
    ELSE LET key == <<df[i].time, df[i].zone>>
         IN  SaveRows(
                IF key \in DOMAIN table
                THEN [table EXCEPT ![key].load_tightness = df[i].load_tightness]
                ELSE [k \in (DOMAIN table) \cup {key} |->
                         IF k = key THEN Gauges(df[i]) ELSE table[k]],
                df, i + 1)

\* StateVariableCompute.save_to_db(df): the table after it and the count returned.
SaveToDb(table, df) == [table |-> SaveRows(table, df, 1), out |-> Returned(Len(df))]

\* ---- the inputs: per hour, a renewable and a fossil source, each absent or
\* with a reading.
Hours == 1..MaxHours
Zones == {"DE", "XX"}
Absent == [present |-> FALSE, reading |-> NullMw]
Present(reading) == [present |-> TRUE, reading |-> reading]
SourceReadings ==
    [B19 : {Absent} \cup {Present(Mw(v)) : v \in {0, 50000}},
     B04 : {Absent} \cup {Present(NullMw)}
           \cup {Present(Mw(v)) : v \in {0 - 50000, 0, 101500, 103000}}]
\* The table rows for one zone and a choice of readings for the given hours.
TableOf(zone_mrid, choice) ==
    {[time |-> t, bidding_zone_mrid |-> zone_mrid, psr_type |-> "B19",
      reading |-> choice[t].B19.reading] : t \in {h \in DOMAIN choice : choice[h].B19.present}}
    \cup
    {[time |-> t, bidding_zone_mrid |-> zone_mrid, psr_type |-> "B04",
      reading |-> choice[t].B04.reading] : t \in {h \in DOMAIN choice : choice[h].B04.present}}

\* ---- the actions
NoGauges == [computed |-> FALSE, saved |-> FALSE, zone_mrid |-> "", frame |-> EmptyFrame]
GaugeOthers == <<det_vars, ens_vars, st_vars, ens_dir, callers, pr_call, api_vars>>

\* The readings that arrive while the gauges table is followed.
ArrivingReadings ==
    [B19 : {Absent, Present(Mw(50000))},
     B04 : {Absent, Present(Mw(0)), Present(Mw(101500))}]

\* INSERT INTO generation_actual ... ON CONFLICT (time, bidding_zone_mrid,
\* psr_type) DO UPDATE SET actual_generation_mw = EXCLUDED.actual_generation_mw
UpsertGeneration(table, records) ==
    {r \in table : ~ \E n \in records : /\ n.time = r.time
                                        /\ n.bidding_zone_mrid = r.bidding_zone_mrid
                                        /\ n.psr_type = r.psr_type}
    \cup records

\* New generation data of one zone and one hour is fetched and stored
\* (fetch_generation_data of main_app).
Ingest ==
    \E zone_mrid \in Zones, readings \in ArrivingReadings :
        /\ sv_rows' = UpsertGeneration(sv_rows, TableOf(zone_mrid, [t \in {1} |-> readings]))
        /\ sv_out' = NoGauges
        /\ UNCHANGED <<regime_states, GaugeOthers>>

ComputeForZoneAct ==
    \E zone_mrid \in Zones :
        /\ sv_out' = [computed |-> TRUE, saved |-> FALSE, zone_mrid |-> zone_mrid,
                      frame |-> ComputeForZone(sv_rows, zone_mrid)]
        /\ UNCHANGED <<sv_rows, regime_states, GaugeOthers>>

SaveToDbAct ==
    /\ sv_out.computed
    /\ regime_states' = SaveToDb(regime_states, sv_out.frame).table
    /\ sv_out' = [sv_out EXCEPT !.saved = TRUE]
    /\ UNCHANGED <<sv_rows, GaugeOthers>>

(***************************************************************************)
(*          RegimeDetector.predict_regime: the numbers it computes         *)
(* A float64 is q * 10^e: a rational q (or inf, nan as above) and a decimal *)
(* exponent e, 0 for the values of ordinary size.                          *)
(***************************************************************************)

\* The largest decimal exponent of a finite float64 (about 1.8e308).
MaxExp == 308
\* The exponent of the large finite inputs: 1e200 and -1e200.
BigExp == 200
\* 1e-6
Eps == Rat(1, 1000000)
PosInf == [num |-> 1, den |-> 0]

F(q, e) == [q |-> q, e |-> e]

\* a - b on float64: the operand smaller by BigExp decimal orders is lost in
\* the rounding.
FSub(a, b) ==
    IF a.e > b.e THEN a
    ELSE IF b.e > a.e THEN F(RSub(I(0), b.q), b.e)
    ELSE F(RSub(a.q, b.q), a.e)
\* a / b for a b of ordinary size
FDiv(a, b) == F(RDiv(a.q, b), a.e)
\* x * x on float64: inf when the result exceeds the largest float.
FSquare(x) ==
    IF RZero(x.q) THEN I(0)
    ELSE IF 2 * x.e > MaxExp THEN PosInf
    ELSE RMul(x.q, x.q)

\* a + b, a / b, a - b of numpy on values that are no less than 0, inf
\* included: inf + x = inf, x / inf = 0, inf / inf = nan, x - nan = nan.
NpAdd(a, b) == IF a.den = 0 THEN a ELSE IF b.den = 0 THEN b ELSE RAdd(a, b)
NpDiv(a, b) ==
    IF a = RNaN \/ b = RNaN THEN RNaN
    ELSE IF b.den = 0 THEN (IF a.den = 0 THEN RNaN ELSE I(0))
    ELSE IF a.den = 0 THEN a
    ELSE RDiv(a, b)
NpSub(a, b) ==
    IF a = RNaN \/ b = RNaN THEN RNaN
    ELSE IF b.den = 0 THEN [num |-> 0 - b.num, den |-> 0]
    ELSE RSub(a, b)

IsSquare(n) == \E i \in 0..n : i * i = n
ISqrt(n)    == CHOOSE i \in 0..n : i * i = n
\* np.sqrt of a value whose root is rational, or of inf
Sqrt(r) == IF r.den = 0 THEN r ELSE [num |-> ISqrt(r.num), den |-> ISqrt(r.den)]
HasSqrt(r) == r.den = 0 \/ (IsSquare(r.num) /\ IsSquare(r.den))

RECURSIVE RSum(_)
RSum(s) == IF s = <<>> THEN I(0) ELSE NpAdd(Head(s), RSum(Tail(s)))

\* ---- StandardScaler
\* mean_ and scale_ of the fitted scaler, from the matrix it was fitted on;
\* a column of zero variance has scale_ 1.
ScalerColumn(scaler, j) == [i \in DOMAIN scaler.fit_on |-> I(scaler.fit_on[i][j].v)]
ScalerMean(scaler, j) ==
    RDiv(RSum(ScalerColumn(scaler, j)), I(Len(scaler.fit_on)))
ScalerVar(scaler, j) ==
    LET col == ScalerColumn(scaler, j)
        dev == [i \in DOMAIN col |-> RSub(col[i], ScalerMean(scaler, j))]
    IN  RDiv(RSum([i \in DOMAIN col |-> RMul(dev[i], dev[i])]), I(Len(col)))
ScalerScale(scaler, j) ==
    IF RZero(ScalerVar(scaler, j)) THEN I(1) ELSE Sqrt(ScalerVar(scaler, j))
\* self.scaler.transform(state)
ScalerTransform(scaler, state) ==
    [j \in DOMAIN state |->
        FDiv(FSub(state[j], F(ScalerMean(scaler, j), 0)), ScalerScale(scaler, j))]

\* ---- KMeans
\* The scaled rows of the training matrix.
ScaledRows(scaler) ==
    {[j \in 1..3 |-> RDiv(RSub(I(scaler.fit_on[i][j].v), ScalerMean(scaler, j)),
                          ScalerScale(scaler, j))] : i \in DOMAIN scaler.fit_on}
\* cluster_centers_ of a fit with as many clusters as distinct rows: the
\* distinct scaled rows, in the order the fit numbered its labels.
ClusterCenterOrders(scaler) ==
    LET pts == ScaledRows(scaler)
    IN  {c \in [1..Cardinality(pts) -> pts] : \A i, j \in DOMAIN c : i # j => c[i] # c[j]}

\* np.linalg.norm(state_scaled - cluster_centers_, axis=1):
\* sqrt(sum(x * x)) per centre.
SquaredDistance(state_scaled, center) ==
    RSum([j \in DOMAIN state_scaled |-> FSquare(FSub(state_scaled[j], F(center[j], 0)))])
Distances(state_scaled, centers) ==
    [i \in DOMAIN centers |-> Sqrt(SquaredDistance(state_scaled, centers[i]))]

\* The part of x . center that decides the order of the distances of a
\* state with large components.
BigDot(state_scaled, center) ==
    RSum([j \in DOMAIN state_scaled |->
             IF state_scaled[j].e > 0 THEN RMul(state_scaled[j].q, center[j]) ELSE I(0)])
\* self.kmeans.predict(state_scaled)[0]: the labels sklearn can return. It
\* takes the argmin of |c|^2 - 2 x.c, which is finite also where the norm
\* overflows; among centres that tie, either may come out of the rounding.
KMeansPredict(centers, state_scaled) ==
    IF \E j \in DOMAIN state_scaled : state_scaled[j].e > 0
    THEN {i - 1 : i \in {a \in DOMAIN centers : \A b \in DOMAIN centers :
                            RLeq(BigDot(state_scaled, centers[b]),
                                 BigDot(state_scaled, centers[a]))}}
    ELSE {i - 1 : i \in {a \in DOMAIN centers : \A b \in DOMAIN centers :
                            RLeq(SquaredDistance(state_scaled, centers[a]),
                                 SquaredDistance(state_scaled, centers[b]))}}

RECURSIVE SortFloats(_)
\* np.sort(distances)
SortFloats(d) ==
    IF d = <<>> THEN <<>>
    ELSE LET i == CHOOSE a \in DOMAIN d : \A b \in DOMAIN d : RLeq(d[a], d[b])
         IN  <<d[i]>> \o SortFloats([j \in 1..(Len(d) - 1) |-> IF j < i THEN d[j] ELSE d[j + 1]])

\* confidence = 1.0 - (sorted_dist[0] / (sorted_dist[1] + 1e-6))
Confidence(sorted_dist) ==
    NpSub(I(1), NpDiv(sorted_dist[1], NpAdd(sorted_dist[2], Eps)))

\* RegimeDetector.predict_regime(...) with the numbers: kmeans.predict gives
\* regime_id and the confidence is computed from the sorted distances.
DetPredictRegimeNumeric(s, centers, point, regime_id) ==
    LET out == DetPredictRegime(s, point, regime_id)
        state_scaled == ScalerTransform(s.scaler, point)
        sorted_dist  == SortFloats(Distances(state_scaled, centers))
    IN  IF out.kind = "raise" THEN out
        ELSE Returned([regime_id    |-> out.value.regime_id,
                       regime_name  |-> out.value.regime_name,
                       confidence   |-> Confidence(sorted_dist),
                       state_vector |-> out.value.state_vector])

\* ---- the inputs
\* Training frames on which fit returns: as many distinct rows as clusters,
\* and a standard deviation that is rational.
TrainingFrame(values) == [i \in DOMAIN values |-> <<Num(values[i]), Num(0), Num(0)>>]
FittedDetectors ==
    {DetFit(DetNew(2), TrainingFrame(<<0, 0, 2, 2>>)).state,
     DetFit(DetNew(3), TrainingFrame(<<0, 2, 2, 8>>)).state}
\* State vectors: of ordinary size, and with a large finite component.
StateVectors ==
    {<<F(I(x), 0), F(y, 0), F(I(0), 0)>> : x \in (0 - 1)..8, y \in {I(0), Rat(3, 4)}}
    \cup {<<F(I(sgn), BigExp), F(I(0), 0), F(I(0), 0)>> : sgn \in {0 - 1, 1}}
\* The state vectors whose distances to the centres are rational (or inf).
ExactFor(s, centers) ==
    {p \in StateVectors : \A i \in DOMAIN centers :
        HasSqrt(SquaredDistance(ScalerTransform(s.scaler, p), centers[i]))}

\* ---- the action
PredictOthers == <<det_vars, ens_vars, st_vars, ens_dir, callers, sv_rows, sv_out, regime_states, api_vars>>

PredictRegimeNumeric ==
    /\ pr_call.out = None
    /\ \E regime_id \in KMeansPredict(pr_call.cluster_centers_,
                                      ScalerTransform(det_scaler, pr_call.point)) :
          pr_call' = [pr_call EXCEPT !.out =
                         DetPredictRegimeNumeric(DetState, pr_call.cluster_centers_,
                                                 pr_call.point, regime_id)]
    /\ UNCHANGED PredictOthers

(***************************************************************************)
(* EntsoEAPIClient (src/api/client.py).  A formatted datetime is the        *)
(* sequence of its decimal digits; the platform's reply to a request is     *)
(* chosen by the environment: a response with a status code and a body, or  *)
(* an exception of the requests library.                                    *)
(***************************************************************************)
MaxRequests == 1   \* requests one client issues: 0..MaxRequests

BASE_URL == "https://web-api.tp.entsoe.eu/api"
BIDDING_ZONES_AsTested ==
    [DE |-> "10YDE-LHM------7",
     FR |-> "10YFR-RTE------C",
     GB |-> "10YGB-NGET-----0",
     ES |-> "10YES-REE------0",
     IT |-> "10YIT-GRTN-----B",
     NL |-> "10YNL----------L",
     BE |-> "10YBE----------2"]
BIDDING_ZONES ==
    [DE |-> "10Y1001A1001A83F",
     FR |-> "10YFR-RTE------C",
     GB |-> "10YGB----------A",
     ES |-> "10YES-REE------0",
     IT |-> "10YIT-GRTN-----B",
     NL |-> "10YNL----------L",
     BE |-> "10YBE----------2"]

\* EntsoEAPIClient(token)
ClientNew(token) == [token |-> token]

RECURSIVE ZeroPadded(_, _)
\* The last `width` decimal digits of n, leading zeros included: strftime's
\* %m, %d, %H, %M (width 2) and %Y for a four-digit year.
ZeroPadded(n, width) ==
    IF width = 0 THEN <<>> ELSE Append(ZeroPadded(n \div 10, width - 1), n % 10)

\* _format_datetime: dt.strftime("%Y%m%d%H%M")
FormatDatetime(dt) ==
    ZeroPadded(dt.year, 4) \o ZeroPadded(dt.month, 2) \o ZeroPadded(dt.day, 2)
        \o ZeroPadded(dt.hour, 2) \o ZeroPadded(dt.minute, 2)

\* Python's truth value of an Optional[str].
StrTruthy(x) == x # None /\ x.s # ""

\* The exceptions of requests that derive from RequestException.
RequestExceptions == {"HTTPError", "ConnectionError", "Timeout"}

HttpResponse(status_code, text) ==
    [kind |-> "response", status_code |-> status_code, text |-> text]

\* response.raise_for_status(): HTTPError on a 4xx or 5xx status code.
RaiseForStatusQuiet(response) ==
    Returned(None)
RaiseForStatus(response) ==
    IF 400 <= response.status_code /\ response.status_code < 600
    THEN Raised("HTTPError", response)
    ELSE Returned(None)

\* get_actual_generation; `reply` is what requests.get comes back with if it
\* is called.  The result holds the requests issued and the value returned.
GetActualGeneration(self, country, start, end, psr_type, reply) ==
    IF country \notin DOMAIN BIDDING_ZONES
    THEN [requests |-> <<>>, out |-> Returned(None)]
    ELSE LET bidding_zone == BIDDING_ZONES[country]
             base == [securityToken |-> self.token,
                      documentType  |-> "A75",
                      processType   |-> "A16",
                      in_Domain     |-> bidding_zone,
                      periodStart   |-> FormatDatetime(start),
                      periodEnd     |-> FormatDatetime(end)]
             params == IF StrTruthy(psr_type)
                       THEN ("psrType" :> psr_type.s) @@ base
                       ELSE base
             request == [url |-> BASE_URL, params |-> params, timeout |-> 30]
             status == IF reply.kind = "raise" THEN reply
                       ELSE RaiseForStatus(reply)
         IN  [requests |-> <<request>>,
              out |-> IF status.kind = "raise"
                      THEN \* except HTTPError / except RequestException
                           IF status.exc \in RequestExceptions
                           THEN Returned(None)
                           ELSE status
                      ELSE Returned(Str(reply.text))]

\* ---- the calls the model makes
Countries   == {"DE", "FR", "GB", "de", "ZZ"}
Datetime(year, month, day, hour, minute) ==
    [year |-> year, month |-> month, day |-> day, hour |-> hour, minute |-> minute]
QueryPeriods ==
    {<<Datetime(2024, 1, 1, 0, 0), Datetime(2024, 1, 2, 0, 0)>>,
     <<Datetime(2023, 12, 31, 23, 5), Datetime(2024, 1, 1, 0, 0)>>}
PsrTypeArgs == {None, Str(""), Str("B18")}
StatusCodes == {200, 204, 401, 404, 429, 500}
Replies ==
    {HttpResponse(status_code, "<xml/>") : status_code \in StatusCodes}
        \cup {HttpResponse(200, "")}
        \cup {Raised(exc, None) : exc \in {"ConnectionError", "Timeout"}}

GetActualGenerationAct ==
    /\ Len(api_requests) < MaxRequests
    /\ \E country \in Countries, period \in QueryPeriods,
          psr_type \in PsrTypeArgs, reply \in Replies :
          LET r == GetActualGeneration(ClientNew("TOKEN"), country,
                                       period[1], period[2], psr_type, reply)
          IN  /\ api_requests' = api_requests \o r.requests
              /\ api_call' = [op |-> "get_actual_generation",
                              args |-> [country |-> country, start |-> period[1],
                                        end |-> period[2], psr_type |-> psr_type],
                              before |-> api_requests,
                              reply |-> reply,
                              out |-> r.out]
    /\ UNCHANGED <<det_vars, ens_vars, st_vars, ens_dir, callers, sv_rows, sv_out,
                   regime_states, pr_call, xml_call>>

(***************************************************************************)
(* EntsoEXMLParser.parse_generation_xml (src/api/parser.py).  A document is *)
(* either text that is not well-formed XML or the tree ET.fromstring gives: *)
(* TimeSeries elements, each with an optional psrType and its Periods, each *)
(* with its start and its Points.  The text of an element is a Str of       *)
(* characters, or None for an empty element; a datetime is its day ordinal  *)
(* and hour.                                                                *)
(***************************************************************************)
MaxXmlPoints == 2   \* Point elements in one Period: 0..MaxXmlPoints

\* find() found no such element / the element found, with its .text
Missing    == [tag |-> "missing"]
Elem(text) == [tag |-> "element", text |-> text]
Chars(cs)  == Str(cs)

DigitValue ==
    ("0" :> 0) @@ ("1" :> 1) @@ ("2" :> 2) @@ ("3" :> 3) @@ ("4" :> 4) @@
    ("5" :> 5) @@ ("6" :> 6) @@ ("7" :> 7) @@ ("8" :> 8) @@ ("9" :> 9)
IsDigits(cs) == \A i \in DOMAIN cs : cs[i] \in DOMAIN DigitValue
RECURSIVE DecimalValue(_)
DecimalValue(cs) ==
    IF cs = <<>> THEN 0
    ELSE 10 * DecimalValue(SubSeq(cs, 1, Len(cs) - 1)) + DigitValue[cs[Len(cs)]]
RECURSIVE Pow10(_)
Pow10(n) == IF n = 0 THEN 1 ELSE 10 * Pow10(n - 1)
Unsigned(cs) == IF cs # <<>> /\ cs[1] = "-" THEN Tail(cs) ELSE cs
Sign(cs)     == IF cs # <<>> /\ cs[1] = "-" THEN 0 - 1 ELSE 1

\* int(text) for the text of an element: TypeError for None, ValueError
\* unless the text is an optionally signed run of digits.
ParseInt(text) ==
    IF text = None THEN Raised("TypeError", "int() argument")
    ELSE LET body == Unsigned(text.s)
         IN  IF body # <<>> /\ IsDigits(body)
             THEN Returned(Sign(text.s) * DecimalValue(body))
             ELSE Raised("ValueError", "invalid literal for int()")

\* float(text) for the text of an element, on decimal literals with at most
\* one point: TypeError for None, ValueError for other text.
ParseFloat(text) ==
    IF text = None THEN Raised("TypeError", "float() argument")
    ELSE LET body   == Unsigned(text.s)
             points == {i \in DOMAIN body : body[i] = "."}
             dot    == IF points = {} THEN Len(body) + 1 ELSE CHOOSE i \in points : TRUE
             whole  == SubSeq(body, 1, dot - 1)
             frac   == SubSeq(body, dot + 1, Len(body))
         IN  IF /\ Cardinality(points) <= 1
                /\ IsDigits(whole) /\ IsDigits(frac)
                /\ Len(whole) + Len(frac) >= 1
             THEN Returned(Rat(Sign(text.s) * (DecimalValue(whole) * Pow10(Len(frac))
                                               + DecimalValue(frac)),
                               Pow10(Len(frac))))
             ELSE Raised("ValueError", "could not convert string to float")

\* datetime: the proleptic day ordinal (date.toordinal) and the hour; date
\* arithmetic raises OverflowError outside datetime.min .. datetime.max.
MaxOrdinal == 3652059
Timestamp(ordinal, hour) == [ordinal |-> ordinal, hour |-> hour, utc |-> TRUE]
\* The text of a start element: an ISO 8601 instant ending in Z, or other text.
IsoText(year, month, day, hour) ==
    [tag |-> "str", form |-> "iso", year |-> year, month |-> month, day |-> day,
     hour |-> hour]
OtherText == [tag |-> "str", form |-> "other"]

\* Days before the first of `month` in a leap year, and the ordinal of a day of
\* 2024 (the year of the model's documents): 2023-12-31 has ordinal 738885.
DaysBeforeMonth == <<0, 31, 60, 91, 121, 152, 182, 213, 244, 274, 305, 335>>
ToOrdinal(year, month, day) == 738885 + (year - 2024) * 366 + DaysBeforeMonth[month] + day

\* datetime.fromisoformat(start.text.replace('Z', '+00:00'))
FromIsoFormat(text) ==
    IF text.form = "iso"
    THEN Returned(Timestamp(ToOrdinal(text.year, text.month, text.day), text.hour))
    ELSE Raised("ValueError", "Invalid isoformat string")

\* start_time + timedelta(hours=h)
AddHours(start_time, h) ==
    LET total == start_time.ordinal * 24 + start_time.hour + h
        ordinal == total \div 24
    IN  IF ordinal < 1 \/ ordinal > MaxOrdinal
        THEN Raised("OverflowError", "date value out of range")
        ELSE Returned([start_time EXCEPT !.ordinal = ordinal, !.hour = total % 24])

\* The body of the loop over Points (lines 90-111): the data after this Point,
\* or the exception that leaves the loops.
ParsePoint(start_time, psr_type, point, data) ==
    IF point.position = Missing \/ point.quantity = Missing
    THEN Returned(data)
    ELSE LET pos == ParseInt(point.position.text)
             qty == IF pos.kind = "raise" THEN pos ELSE ParseFloat(point.quantity.text)
         IN  IF qty.kind = "raise"
             THEN \* except (ValueError, TypeError): continue
                  Returned(data)
             ELSE LET timestamp == AddHours(start_time, pos.value - 1)
                  IN  IF timestamp.kind = "raise" THEN timestamp
                      ELSE Returned(Append(data, [time |-> timestamp.value,
                                                   psr_type |-> psr_type,
                                                   actual_generation_mw |-> qty.value]))

RECURSIVE ParsePoints(_, _, _, _)
ParsePoints(start_time, psr_type, points, data) ==
    IF points = <<>> THEN Returned(data)
    ELSE LET r == ParsePoint(start_time, psr_type, Head(points), data)
         IN  IF r.kind = "raise" THEN r
             ELSE ParsePoints(start_time, psr_type, Tail(points), r.value)

\* The body of the loop over Periods (lines 74-111).
ParsePeriodAlwaysSkipping(psr_type, period, data) ==
    IF period.start = Missing \/ period.start.text = None THEN Returned(data)
    ELSE LET start_time == FromIsoFormat(period.start.text)
         IN  IF start_time.kind = "raise" THEN Returned(data)
             ELSE ParsePoints(start_time.value, psr_type, period.points, data)
ParsePeriod(psr_type, period, data) ==
    IF period.start = Missing \/ period.start.text = None THEN Returned(data)
    ELSE LET start_time == FromIsoFormat(period.start.text)
         IN  IF start_time.kind = "raise" THEN start_time
             ELSE ParsePoints(start_time.value, psr_type, period.points, data)

RECURSIVE ParsePeriods(_, _, _)
ParsePeriods(psr_type, periods, data) ==
    IF periods = <<>> THEN Returned(data)
    ELSE LET r == ParsePeriod(psr_type, Head(periods), data)
         IN  IF r.kind = "raise" THEN r
             ELSE ParsePeriods(psr_type, Tail(periods), r.value)

RECURSIVE ParseTimeSeries(_, _)
\* The loop over TimeSeries (lines 65-111).
ParseTimeSeries(series, data) ==
    IF series = <<>> THEN Returned(data)
    ELSE LET timeseries == Head(series)
             r == IF timeseries.psrType = Missing THEN Returned(data)
                  ELSE ParsePeriods(timeseries.psrType.text, timeseries.periods, data)
         IN  IF r.kind = "raise" THEN r
             ELSE ParseTimeSeries(Tail(series), r.value)

\* pd.DataFrame(data): one row per dict, in order.
DataFrame(data) == [tag |-> "DataFrame", rows |-> data]

\* parse_generation_xml
ParseGenerationXml(doc) ==
    IF doc.wellformed = FALSE
    THEN \* except ET.ParseError
         None
    ELSE LET r == ParseTimeSeries(doc.series, <<>>)
         IN  IF r.kind = "raise"
             THEN \* except Exception
                  None
             ELSE IF r.value = <<>> THEN None ELSE DataFrame(r.value)

\* ---- the documents the model parses
XmlPoint(position, quantity) == [position |-> position, quantity |-> quantity]
XmlPoints ==
    {XmlPoint(Elem(Chars(<<"1">>)), Elem(Chars(<<"5">>))),
     XmlPoint(Elem(Chars(<<"2">>)), Elem(Chars(<<"7", ".", "5">>))),
     XmlPoint(Elem(Chars(<<"-", "1">>)), Elem(Chars(<<"0">>))),
     XmlPoint(Missing, Elem(Chars(<<"5">>))),
     XmlPoint(Elem(Chars(<<"1">>)), Missing),
     XmlPoint(Elem(None), Elem(Chars(<<"5">>))),
     XmlPoint(Elem(Chars(<<"1", ".", "5">>)), Elem(Chars(<<"5">>))),
     XmlPoint(Elem(Chars(<<"1">>)), Elem(Chars(<<"n", "/", "a">>))),
     XmlPoint(Elem(Chars(<<"9", "9", "9", "9", "9", "9", "9", "9">>)), Elem(Chars(<<"5">>)))}
XmlStarts ==
    {Missing, Elem(None), Elem(IsoText(2024, 1, 1, 23)), Elem(OtherText)}
XmlPeriod(start, points) == [start |-> start, points |-> points]
XmlPeriods(max_points) ==
    {XmlPeriod(start, points) : start \in XmlStarts, points \in SeqsUpTo(XmlPoints, max_points)}
\* What may come before the Period or TimeSeries that varies: one good Point,
\* or a start that is no ISO text.
LeadingPeriods ==
    {XmlPeriod(Elem(IsoText(2024, 2, 29, 0)),
               <<XmlPoint(Elem(Chars(<<"1">>)), Elem(Chars(<<"5">>)))>>),
     XmlPeriod(Elem(OtherText),
               <<XmlPoint(Elem(Chars(<<"1">>)), Elem(Chars(<<"5">>)))>>)}
XmlSeries(psrType, periods) == [psrType |-> psrType, periods |-> periods]
XmlTimeSeries(max_points) ==
    {XmlSeries(psrType, periods) :
        psrType \in {Missing, Elem(Chars(<<"B", "1", "8">>))},
        periods \in {<<p>> : p \in XmlPeriods(max_points)}
                        \cup {<<l, p>> : l \in LeadingPeriods, p \in XmlPeriods(max_points)}}
LeadingSeries ==
    {XmlSeries(psrType, <<l>>) :
        psrType \in {Missing, Elem(Chars(<<"B", "1", "9">>))}, l \in LeadingPeriods}
NotWellFormed == [wellformed |-> FALSE, series |-> <<>>]
XmlDocument(series) == [wellformed |-> TRUE, series |-> series]
XmlDocuments(max_points) ==
    {NotWellFormed, XmlDocument(<<>>)}
        \cup {XmlDocument(<<s>>) : s \in XmlTimeSeries(max_points)}
        \cup {XmlDocument(<<l, s>>) : l \in LeadingSeries, s \in XmlTimeSeries(max_points)}

Unparsed == [tag |-> "not called"]
ParseGenerationXmlAct ==
    /\ xml_call.out = Unparsed
    /\ xml_call' = [xml_call EXCEPT !.out = ParseGenerationXml(xml_call.doc)]
    /\ UNCHANGED <<det_vars, ens_vars, st_vars, ens_dir, callers, sv_rows, sv_out,
                   regime_states, pr_call, api_requests, api_call>>

(***************************************************************************)
(*                              Specifications                             *)
(***************************************************************************)

\* The detector and its callers; n_regimes = 3 is the constructors' default.
Init == (\E k \in 1..MaxK : DetInit(k)) /\ EnsInit(3) /\ ExtInit
DetNext == Fit \/ PredictRegime \/ RegimeProfile \/ Save \/ Load \/ DetContinue
Spec == Init /\ [][DetNext]_vars

\* The ensemble, the stress tester and their callers.
InitEnsemble == DetInit(3) /\ (\E n \in 1..MaxN : EnsInit(n)) /\ ExtInit
EnsNext ==
    \/ FitAll \/ NewStressTester \/ Predict \/ StressSingle \/ StressMany
    \/ Curve \/ Comparison \/ Library \/ Scenario \/ Narrate \/ Continue
SpecEnsemble == InitEnsemble /\ [][EnsNext]_vars

\* A detector loading bundles, complete ones and ones lacking components.
\* It starts with a detector whose fit returned.
InitBundles ==
    /\ \E k \in 1..MaxK, df \in DetFrames :
          LET r == DetFit(DetNew(k), df)
          IN  /\ r.out.kind = "ok"
              /\ det_n_regimes = r.state.n_regimes
              /\ det_scaler = r.state.scaler
              /\ det_kmeans = r.state.kmeans
              /\ det_centroids = r.state.centroids
              /\ det_feature_names = r.state.feature_names
    /\ det_file = None
    /\ det_call = DetIdle
    /\ det_completed = TRUE
    /\ EnsInit(3) /\ ExtInit
BundlesNext == NewDetector \/ Save \/ IncompleteBundle \/ Load \/ DetContinue
SpecBundles == InitBundles /\ [][BundlesNext]_vars

\* compute_for_zone on the windows of one zone's readings.
InitGauges ==
    /\ DetInit(3) /\ EnsInit(3) /\ ApiInit
    /\ ens_dir = EmptyDir /\ callers = <<>> /\ pr_call = None
    /\ \E zone_mrid \in Zones, choice \in [Hours -> SourceReadings] :
          sv_rows = TableOf(zone_mrid, choice)
    /\ sv_out = NoGauges
    /\ regime_states = <<>>
GaugesNext == ComputeForZoneAct
SpecGauges == InitGauges /\ [][GaugesNext]_vars

\* Generation data arriving, gauges computed and written to regime_states.
InitGaugeDb ==
    /\ DetInit(3) /\ EnsInit(3) /\ ApiInit
    /\ ens_dir = EmptyDir /\ callers = <<>> /\ pr_call = None
    /\ sv_rows = {}
    /\ sv_out = NoGauges
    /\ regime_states = <<>>
GaugeDbNext == Ingest \/ ComputeForZoneAct \/ SaveToDbAct
SpecGaugeDb == InitGaugeDb /\ [][GaugeDbNext]_vars

\* One client and the calls made on it.
InitClient == DetInit(3) /\ EnsInit(3) /\ ExtInit
ClientNext == GetActualGenerationAct
SpecClient == InitClient /\ [][ClientNext]_vars

\* parse_generation_xml on one document.
InitParser ==
    /\ DetInit(3) /\ EnsInit(3)
    /\ ens_dir = EmptyDir /\ callers = <<>>
    /\ sv_rows = <<>> /\ sv_out = None /\ regime_states = <<>> /\ pr_call = None
    /\ api_requests = <<>> /\ api_call = None
    /\ \E doc \in XmlDocuments(MaxXmlPoints) : xml_call = [doc |-> doc, out |-> Unparsed]
ParserNext == ParseGenerationXmlAct
SpecParser == InitParser /\ [][ParserNext]_vars

\* predict_regime on a fitted detector and one state vector.
InitPredict ==
    /\ EnsInit(3) /\ ApiInit
    /\ ens_dir = EmptyDir /\ callers = <<>>
    /\ sv_rows = <<>> /\ sv_out = None /\ regime_states = <<>>
    /\ det_file = None /\ det_call = DetIdle /\ det_completed = TRUE
    /\ \E s \in FittedDetectors :
          /\ det_n_regimes = s.n_regimes
          /\ det_scaler = s.scaler
          /\ det_kmeans = s.kmeans
          /\ det_centroids = s.centroids
          /\ det_feature_names = s.feature_names
          /\ \E centers \in ClusterCenterOrders(s.scaler), point \in StateVectors :
                /\ point \in ExactFor(s, centers)
                /\ pr_call = [cluster_centers_ |-> centers, point |-> point, out |-> None]
PredictNext == PredictRegimeNumeric
SpecPredict == InitPredict /\ [][PredictNext]_vars

\* The inference calls on a detector whose fit returned, with up to one
\* regime more than REGIME_NAMES has names.
InitInference ==
    /\ \E k \in 2..(MaxK + 1) : \E df \in InferenceFrames(k) :
          LET r == DetFit(DetNew(k), df)
          IN  /\ r.out.kind = "ok"
              /\ det_n_regimes = r.state.n_regimes
              /\ det_scaler = r.state.scaler
              /\ det_kmeans = r.state.kmeans
              /\ det_centroids = r.state.centroids
              /\ det_feature_names = r.state.feature_names
    /\ det_file = None
    /\ det_call = DetIdle
    /\ det_completed = TRUE
    /\ EnsInit(3) /\ ExtInit
InferenceNext == PredictRegime \/ RegimeProfile \/ AnalyzeDf \/ Save \/ DetContinue
SpecInference == InitInference /\ [][InferenceNext]_vars

\* The tester's calls, with their arguments, on an ensemble that fit_all
\* has trained.
InitTester == DetInit(3) /\ ConcInit
TesterNext ==
    \/ StressSingleFeatureCall \/ SensitivityCurveCall \/ RegimeComparisonCall
    \/ RunScenarioCall \/ Continue
SpecTester == InitTester /\ [][TesterNext]_vars

\* Ensemble objects trained, saved to and loaded from one directory.
InitPersist == DetInit(3) /\ (\E n \in 1..MaxN : EnsInit(n)) /\ ExtInit
PersistNext == FitAll \/ NewEnsemble \/ EnsSaveAct \/ EnsLoadAct \/ Continue
SpecPersist == InitPersist /\ [][PersistNext]_vars

\* Callers running predict and stress calls at the same time on one fitted
\* ensemble; no fit_all and no load runs.
InitConcurrent == DetInit(3) /\ ConcInit
ConcNext ==
    \E c \in Callers : ConcBegin(c) \/ ConcBaseline(c) \/ ConcShocked(c) \/ ConcReturn(c)
SpecConcurrent == InitConcurrent /\ [][ConcNext]_vars

(***************************************************************************)
(*                         Claims on the detector                          *)
(***************************************************************************)

\* C1: predict_regime and regime_profile return a result only if a fit or a
\* load has completed successfully before on that detector; in every other
\* state (fresh, or after fit/load calls that all raised) both raise.
C1_ResultOnlyAfterCompletedFitOrLoad ==
    (det_call.op \in {"predict_regime", "regime_profile"} /\ det_call.out.kind = "ok")
        => det_completed

\* C2: fit raises the insufficient-data error if and only if fewer than k rows
\* are left once the rows with a NaN in any feature are dropped; with k or more
\* valid rows (exactly k too) it returns the metrics and the detector is Fitted.
C2_FitFailsIffFewerThanKValidRows ==
    det_call.op = "fit" =>
        LET n_valid == Len(DropNaNRows(det_call.args[1]))
        IN  /\ (det_call.out.kind = "raise") <=> (n_valid < det_n_regimes)
            /\ n_valid >= det_n_regimes =>
                    /\ det_call.out.kind = "ok"
                    /\ det_call.out.value.n_samples = n_valid
                    /\ det_kmeans # None /\ det_centroids # None


(***************************************************************************)
(*                  Claims on the ensemble and the tester                  *)
(***************************************************************************)

\* The regime id a call named, when it named one.
CallRegime == CHOOSE r \in call.regime_id : TRUE
\* The ensemble holds models, but none for the regime id the call named.
NamesUnknownRegime ==
    /\ call.op \in RegimeOps
    /\ call.regime_id # {}
    /\ DOMAIN ens_models # {}
    /\ CallRegime \notin DOMAIN ens_models

\* C3: after any sequence of fit_all calls a regime id is a key of models if
\* and only if that regime had at least 10 rows in the data of the most recent
\* fit_all; a regime the most recent fit_all skipped has no entry.
C3_ModelsAreThoseOfLastFitAll ==
    call.op = "fit_all" =>
        \A r \in 0..(ens_n_regimes - 1) :
            (r \in DOMAIN ens_models) <=> (call.rows[r] >= MinSamples)

\* C4: in an ensemble with at least one model, predict, stress_single_feature,
\* stress_combined, sensitivity_curve and run_scenario called with a regime id
\* that has no model raise an error and return no result, whatever the
\* base_state and the perturbation.
C4_UnknownRegimeRaises ==
    NamesUnknownRegime =>
        call.out = Raised("ValueError", "No model for regime " \o ToString(CallRegime))
C4_Witness ==
    /\ NamesUnknownRegime
    /\ call.op = "run_scenario"
    /\ call.out.kind = "raise"

\* C5: every predict or stress call against an ensemble that holds no models
\* raises an error; regime_comparison and run_scenario without a regime id too.
C5_NoModelsRaises ==
    (DOMAIN ens_models = {} /\ call.op \in RegimeOps \cup {"regime_comparison"})
        => call.out.kind = "raise"

\* The error a predict or stress call naming regime_id gets from an ensemble
\* that holds no models at all (NotFitted).
NotFittedError(regime_id) == EnsPredict(EnsNew(ens_n_regimes), regime_id, <<>>)

\* C6: the error of a call naming a regime id without a model, in an ensemble
\* that has other models (UnknownRegime), is a different value from the error
\* of that call against an ensemble with no models at all (NotFitted).
C6_UnknownRegimeDistinctFromNotFitted ==
    (NamesUnknownRegime /\ call.out.kind = "raise")
        => call.out # NotFittedError(CallRegime)

\* The feature schema of the model of regime r.
Schema(r) == Range(ens_models[r].feature_names)
\* The regimes whose model a stress call evaluates.
RegimesOfCall ==
    IF call.regime_id # {} THEN call.regime_id \cap DOMAIN ens_models
    ELSE DOMAIN ens_models
\* What stress_combined returned for perturbations: every one of them is
\* applied in shocked_state, and each effect carries the model's coefficient.
AllApplied(res, m) ==
    /\ \A i \in DOMAIN res.perturbations :
          LET f == res.perturbations[i].k
          IN  /\ HasKey(m.coef, f)
              /\ res.individual_effects[i].v.coefficient = I(DictGet(m.coef, f))
              /\ DictGet(res.shocked_state, f)
                    = RAdd(DictGet(res.base_state, f), res.perturbations[i].v)
    /\ \A j \in DOMAIN res.base_state :
          (\A i \in DOMAIN res.perturbations : res.perturbations[i].k # res.base_state[j].k)
              => res.shocked_state[j] = res.base_state[j]

\* C7: stress_single_feature, stress_combined and run_scenario raise an error
\* whenever a perturbed feature is not in the model's feature schema; no result
\* is returned with only some perturbations applied or with an unknown feature
\* given the coefficient 0.
C7_UnknownFeatureRaises ==
    /\ ( /\ call.op \in {"stress_single_feature", "stress_combined", "run_scenario"}
         /\ \E r \in RegimesOfCall : ~(call.features \subseteq Schema(r)) )
            => call.out.kind = "raise"
    /\ ( /\ call.op \in {"stress_combined", "run_scenario"}
         /\ call.out.kind = "ok" )
            => IF call.regime_id # {}
               THEN AllApplied(call.out.value, ens_models[CallRegime])
               ELSE \A r \in DOMAIN call.out.value :
                        AllApplied(call.out.value[r], ens_models[r])
C7_Witness ==
    /\ call.op = "stress_combined"
    /\ call.regime_id # {}
    /\ CallRegime \in DOMAIN ens_models
    /\ Cardinality(call.features) = 2
    /\ Cardinality(call.features \cap Schema(CallRegime)) = 1
    /\ call.out.kind = "raise"

RECURSIVE SumContributions(_, _)
\* The sum of individual_effects[f].contribution over the features from i on.
SumContributions(effects, i) ==
    IF i > Len(effects) THEN I(0)
    ELSE RAdd(effects[i].v.contribution, SumContributions(effects, i + 1))

\* C8: for stress_combined on a regime that has a model, with perturbations
\* whose features are all in the schema, the contributions (coefficient times
\* delta) of the perturbed features sum to delta_pred = shocked - baseline.
C8_ContributionsSumToDeltaPred ==
    (call.op = "stress_combined" /\ call.out.kind = "ok") =>
        LET res == call.out.value
        IN  /\ SumContributions(res.individual_effects, 1) = res.delta_pred
            /\ res.delta_pred = RSub(res.shocked_pred, res.baseline_pred)
C8_Witness ==
    /\ call.op = "stress_combined"
    /\ call.out.kind = "ok"
    /\ Len(call.out.value.perturbations) = 2
    /\ \A i \in 1..2 : ~RZero(call.out.value.individual_effects[i].v.contribution)
    /\ ~RZero(call.out.value.delta_pred)

\* The model y = 2x + 1 of the end-to-end scenario.
IsTwoXPlusOne(m) ==
    /\ Len(m.coef) = 1 /\ m.coef[1].k = "x" /\ m.coef[1].v = 2
    /\ m.intercept = 1

RECURSIVE ModelValue(_, _, _)
\* The regime's linear model at a state: the intercept plus, for each feature
\* of the model from i on, its coefficient times the state's value for it.
ModelValue(m, state, i) ==
    IF i > Len(m.coef) THEN I(m.intercept)
    ELSE RAdd(RMul(I(m.coef[i].v), DictGet(state, m.coef[i].k)),
              ModelValue(m, state, i + 1))

\* C9: stress_single_feature evaluates the regime's linear model at base_state
\* and at base_state with only the named feature raised by delta, and returns
\* delta_pred = shocked - baseline and pct_change = 100*delta_pred/|baseline|
\* (0 for a baseline of 0), elasticity = 0 when base_state[feature] is 0; with
\* coefficient 2, intercept 1, x = 5 and delta = 1: delta_pred = 2 and
\* pct_change = 200/11.
C9_SingleFeatureResult ==
    (call.op = "stress_single_feature" /\ call.out.kind = "ok") =>
        LET res == call.out.value
            m   == ens_models[CallRegime]
            f   == res.feature_shocked
        IN  /\ res.baseline_pred = ModelValue(m, res.base_state, 1)
            /\ res.shocked_pred = ModelValue(m, res.shocked_state, 1)
            /\ \A j \in DOMAIN res.base_state :
                  /\ res.shocked_state[j].k = res.base_state[j].k
                  /\ res.shocked_state[j].v =
                        IF res.base_state[j].k = f
                        THEN RAdd(res.base_state[j].v, res.perturbation_size)
                        ELSE res.base_state[j].v
            /\ res.delta_pred = RSub(res.shocked_pred, res.baseline_pred)
            /\ IF RZero(res.baseline_pred) THEN res.pct_change = I(0)
               ELSE RMul(res.pct_change, RAbs(res.baseline_pred))
                        = RMul(I(100), res.delta_pred)
            /\ RZero(DictGet(res.base_state, f)) => res.elasticity = I(0)
            /\ ( /\ IsTwoXPlusOne(m)
                 /\ res.base_state = <<Entry("x", 5)>> /\ res.perturbation_size = I(1) )
                    => (res.delta_pred = I(2) /\ res.pct_change = Rat(200, 11))
C9_Witness ==
    /\ call.op = "stress_single_feature"
    /\ call.out.kind = "ok"
    /\ IsTwoXPlusOne(ens_models[CallRegime])
    /\ call.out.value.base_state = <<Entry("x", 5)>>
    /\ call.out.value.perturbation_size = I(1)
    /\ call.out.value.pct_change = Rat(200, 11)

\* C10: no StressTester operation, whether it returns or raises, changes the
\* ensemble's models, feature_names, target_name or n_regimes, nor the
\* caller's base_state or perturbations mapping.
C10_StressTesterMutatesNothing ==
    [][call'.op \in StressOps =>
            /\ UNCHANGED <<ens_models, ens_feature_names, ens_target_name, ens_n_regimes>>
            /\ call'.inputs_unchanged]_vars
C10_Witness ==
    /\ call.op = "stress_combined"
    /\ call.out.kind = "ok"
    /\ \E i \in DOMAIN call.out.value.perturbations : ~RZero(call.out.value.perturbations[i].v)
    /\ call.inputs_unchanged

(***************************************************************************)
(*                     Claims on concurrent callers                        *)
(***************************************************************************)

\* C11: for any interleaving of predict and stress calls issued by several
\* callers against one fitted ensemble, every call returns what it returns
\* when run alone on the ensemble it was issued on, and the ensemble is still
\* that ensemble; so a call repeated with the same inputs returns the same.
C11_InterleavedCallsReturnAsAlone ==
    \A c \in Callers :
        callers[c].pc = "done" =>
            /\ callers[c].out = RunAlone(callers[c].ens0, callers[c].req)
            /\ EnsState = callers[c].ens0
C11_Witness ==
    /\ callers["a"].pc = "done"
    /\ callers["a"].req.op = "stress_combined"
    /\ callers["a"].out.kind = "ok"
    /\ callers["b"].pc = "shock"
    /\ callers["b"].req.regime_id = callers["a"].req.regime_id
    /\ callers["b"].base.kind = "ok"

(***************************************************************************)
(*                    Claims on saving and loading                         *)
(***************************************************************************)

\* C13: RegimeDetector.load is all-or-nothing: it returns having replaced
\* scaler, kmeans, centroids, n_regimes and feature_names by the bundle's, or
\* it raises and leaves all five as they were; no mix of old and new is left.
C13_DetectorLoadAllOrNothing ==
    [][(det_call.op = "idle" /\ det_call'.op = "load") =>
          \/ /\ det_call'.out.kind = "ok"
             /\ det_scaler' = det_file.data.scaler
             /\ det_kmeans' = det_file.data.kmeans
             /\ det_centroids' = det_file.data.centroids
             /\ det_n_regimes' = det_file.data.n_regimes
             /\ det_feature_names' = det_file.data.feature_names
          \/ /\ det_call'.out.kind = "raise"
             /\ UNCHANGED <<det_scaler, det_kmeans, det_centroids, det_n_regimes,
                            det_feature_names>>]_vars

\* A load that returned, made on an object as its constructor left it.
LoadedFresh == call.op = "load" /\ call.out.kind = "ok" /\ call.fresh

\* C12: saving a fitted ensemble and loading the bundle into a freshly
\* constructed instance yields an instance with the same regime models,
\* feature names and target name as the saved one, so that predict returns
\* the same for every regime id and input.
C12_SaveLoadRoundTrip ==
    (LoadedFresh /\ DOMAIN ens_dir.saved_by.models # {}) =>
        /\ ens_models = ens_dir.saved_by.models
        /\ ens_feature_names = ens_dir.saved_by.feature_names
        /\ ens_target_name = ens_dir.saved_by.target_name
        /\ \A r \in RegimeIds, X \in BaseStates :
              EnsPredict(EnsState, r, X) = EnsPredict(ens_dir.saved_by, r, X)

\* C14: load fails when the directory has no metadata record or lacks the
\* model file of a regime id in 0..n_regimes-1; it never returns having loaded
\* only a part of the regimes in range.
C14_LoadRejectsIncompleteBundle ==
    call.op = "load" =>
        /\ ens_dir.metadata = None => call.out.kind = "raise"
        /\ call.out.kind = "ok" =>
              \A r \in 0..(ens_n_regimes - 1) : r \in DOMAIN ens_dir.files

\* C15: in every state reached by fit_all and load calls, models has at most
\* n_regimes entries and every key of models lies in 0..n_regimes-1.
C15_ModelsWithinRegimeCount ==
    /\ Cardinality(DOMAIN ens_models) <= ens_n_regimes
    /\ DOMAIN ens_models \subseteq 0..(ens_n_regimes - 1)

\* C16: in every state reached by fit_all and load calls, every model in
\* models has the ensemble's feature_names as its ordered feature schema.
C16_ModelsShareTheSchema ==
    \A r \in DOMAIN ens_models :
        List(ens_models[r].feature_names) = ens_feature_names

(***************************************************************************)
(*                     Claims on the gauge computation                     *)
(***************************************************************************)

\* The total generation of hour t in the rows compute_for_zone read.
HourTotal(t) ==
    SumMw({r \in FetchGenerationData(sv_rows, sv_out.zone_mrid) : r.time = t})

\* C17: for every set of input rows of compute_for_zone, every output row has
\* 0 <= res_penetration <= 100 and 0 <= interconnect_saturation <= 100, and
\* an hour with zero total generation has res_penetration = 0 and
\* load_tightness = 0.
C17_GaugesWithinRange ==
    sv_out.computed =>
        \A i \in DOMAIN sv_out.frame :
            LET row == sv_out.frame[i]
            IN  /\ RLeq(I(0), row.res_penetration)
                /\ RLeq(row.res_penetration, I(100))
                /\ RLeq(I(0), row.interconnect_saturation)
                /\ RLeq(row.interconnect_saturation, I(100))
                /\ HourTotal(row.time) = 0 =>
                      /\ row.res_penetration = I(0)
                      /\ row.load_tightness = I(0)

\* C18: compute_for_zone returns exactly one row per distinct timestamp of
\* the input rows, in ascending time order; the result is empty if and only
\* if the window has no rows, so an hour whose readings are all zero has a
\* row of its own.
C18_OneRowPerTimestamp ==
    sv_out.computed =>
        LET df    == FetchGenerationData(sv_rows, sv_out.zone_mrid)
            frame == sv_out.frame
        IN  /\ Len(frame) = Cardinality({r.time : r \in df})
            /\ \A i \in DOMAIN frame : \E r \in df : r.time = frame[i].time
            /\ \A i, j \in DOMAIN frame : i < j => frame[i].time < frame[j].time
            /\ (frame = EmptyFrame) <=> (df = {})
            /\ \A r \in df : \E i \in DOMAIN frame : frame[i].time = r.time

\* A window of MaxHours hours, one of them with all readings zero, was
\* computed and the zero hour has its row.
C18_Witness ==
    /\ sv_out.computed
    /\ Len(sv_out.frame) = MaxHours
    /\ \E i \in DOMAIN sv_out.frame :
          LET hour == {r \in FetchGenerationData(sv_rows, sv_out.zone_mrid) :
                         r.time = sv_out.frame[i].time}
          IN  /\ Cardinality(hour) = 2
              /\ \A r \in hour : r.reading = Mw(0)
              /\ sv_out.frame[i].load_tightness = I(0)

\* C19: after save_to_db writes a gauge row whose (time, zone) key already
\* exists in the table, the stored row for that key holds all five newly
\* computed gauge values, and the table holds one row per key.
C19_SaveOverwritesAllGauges ==
    sv_out.saved =>
        \A i \in DOMAIN sv_out.frame :
            LET key == <<sv_out.frame[i].time, sv_out.frame[i].zone>>
            IN  /\ key \in DOMAIN regime_states
                /\ regime_states[key] = Gauges(sv_out.frame[i])

(***************************************************************************)
(*                       Claims on predict_regime                          *)
(***************************************************************************)

\* The distances of the call's state vector to the centres, ascending.
SortedDistances ==
    SortFloats(Distances(ScalerTransform(det_scaler, pr_call.point),
                         pr_call.cluster_centers_))

\* C20: for any fitted detector and any finite input vector, predict_regime
\* returns a regime_id in 0..k-1 that is the index of a centroid nearest to
\* the scaled input, and a confidence 1 - d1/(d2 + eps), d1 <= d2 the two
\* smallest centroid distances, with 0 <= confidence <= 1.
C20_NearestCentroidAndConfidence ==
    pr_call.out # None =>
        /\ pr_call.out.kind = "ok"
        /\ pr_call.out.value.regime_id \in 0..(det_n_regimes - 1)
        /\ Distances(ScalerTransform(det_scaler, pr_call.point),
                     pr_call.cluster_centers_)[pr_call.out.value.regime_id + 1]
              = SortedDistances[1]
        /\ RLeq(SortedDistances[1], SortedDistances[2])
        /\ pr_call.out.value.confidence =
              NpSub(I(1), NpDiv(SortedDistances[1], NpAdd(SortedDistances[2], Eps)))
        /\ pr_call.out.value.confidence # RNaN
        /\ RLeq(I(0), pr_call.out.value.confidence)
        /\ RLeq(pr_call.out.value.confidence, I(1))

(***************************************************************************)
(*                   Claims on the detector's inference                    *)
(***************************************************************************)

\* C21: on a fitted detector with k regimes, for any k (also k larger than
\* the number of names in REGIME_NAMES), regime_profile(id) returns the
\* centroid and a regime name for every id in 0..k-1 and fails for every id
\* outside 0..k-1, negative ids included.
C21_ProfileForEveryRegime ==
    (det_call.op = "regime_profile" /\ det_completed) =>
        LET id == det_call.args[1]
        IN  IF id \in 0..(det_n_regimes - 1)
            THEN /\ det_call.out.kind = "ok"
                 /\ det_call.out.value.regime_id = id
                 /\ det_call.out.value.centroid.row = id
            ELSE det_call.out.kind = "raise"

\* C22: predict_regime, regime_profile, analyze_df and save leave the
\* detector's scaler, cluster centres, centroids, n_regimes and feature_names
\* as they were.
C22_InferenceLeavesTheDetector ==
    [][det_call'.op \in {"predict_regime", "regime_profile", "analyze_df", "save"}
          => /\ det_scaler' = det_scaler
             /\ det_kmeans' = det_kmeans
             /\ det_centroids' = det_centroids
             /\ det_n_regimes' = det_n_regimes
             /\ det_feature_names' = det_feature_names]_vars

\* analyze_df returned the labels of a frame with rows other than those the
\* scaler was fitted on.
C22_Witness ==
    /\ det_call.op = "analyze_df"
    /\ det_call.out.kind = "ok"
    /\ Len(det_call.args[1]) >= 2
    /\ det_call.args[1] # det_scaler.fit_on
    /\ det_scaler.fitted

(***************************************************************************)
(*                  Claims on the tester's sweeps                          *)
(***************************************************************************)

\* The rows of a returned sensitivity_curve have the columns the loop fills
\* from the perturbation: feature_value = base_state[feature] + perturbation
\* and delta_pred = predicted_output - baseline.
CurveRowsConsistent ==
    \A i \in DOMAIN call.out.value :
        LET row == call.out.value[i]
        IN  /\ row.feature_value =
                  RAdd(DictGet(call.args.base_state, call.args.feature), row.perturbation)
            /\ row.delta_pred = RSub(row.predicted_output, row.baseline)

\* The perturbations of a returned sensitivity_curve are evenly spaced from
\* delta_range[0] on, in the order of the rows.
CurveEvenlySpaced ==
    LET rows == call.out.value
        n    == call.args.n_points
    IN  /\ Len(rows) = n
        /\ n >= 1 => rows[1].perturbation = call.args.delta_range[1]
        /\ \A i \in 1..(n - 1) :
              RSub(rows[i + 1].perturbation, rows[i].perturbation)
                 = RDiv(RSub(call.args.delta_range[2], call.args.delta_range[1]), I(n - 1))

C24_OneResultPerFittedRegime ==
    /\ (call.op = "regime_comparison" /\ call.out.kind = "ok") =>
          LET ids == SortedIds(DOMAIN ens_models)
          IN  /\ Len(call.out.value) = Len(ids)
              /\ \A i \in DOMAIN ids : call.out.value[i].regime_id = ids[i]
    /\ (call.op = "run_scenario" /\ call.args.regime_id = {} /\ call.out.kind = "ok") =>
          /\ DOMAIN call.out.value = DOMAIN ens_models
          /\ \A r \in DOMAIN ens_models : call.out.value[r].regime_id = r
    /\ (call.op = "run_scenario" /\ call.args.regime_id # {}) =>
          call.out = StressCombined(EnsState, CHOOSE r \in call.args.regime_id : TRUE,
                                    call.args.base_state,
                                    call.args.scenario.perturbations).out

\* run_scenario returned the result for regime 0 alone on an ensemble that
\* holds models for two regimes.
C24_Witness ==
    /\ call.op = "run_scenario"
    /\ call.args.regime_id = {0}
    /\ call.out.kind = "ok"
    /\ call.out.value.regime_id = 0
    /\ Cardinality(DOMAIN ens_models) = 2

\* C30: stress_single_feature never divides by zero and never returns an
\* undefined elasticity: for every base_state, feature in the schema and
\* delta, delta = 0 with base_state[feature] # 0 included, the returned
\* elasticity is a defined finite number.
C30_ElasticityDefined ==
    (/\ call.op = "stress_single_feature"
     /\ ens_feature_names # None
     /\ call.args.feature \in Range(ens_feature_names.items)) =>
        /\ call.out.kind = "raise" => call.out.exc # "ZeroDivisionError"
        /\ call.out.kind = "ok" => call.out.value.elasticity.den # 0

(***************************************************************************)
(*                      Claims on failed calls                             *)
(***************************************************************************)

\* C28: a fit call that raises leaves the detector as it was: an unfitted
\* detector stays unfitted (kmeans and centroids absent) and a fitted one
\* keeps its scaler, cluster centres and centroids.
C28_FailedFitLeavesTheDetector ==
    [][(det_call'.op = "fit" /\ det_call'.out.kind = "raise")
          => /\ det_scaler' = det_scaler
             /\ det_kmeans' = det_kmeans
             /\ det_centroids' = det_centroids]_vars

\* C29: after load(dir) completes, models equals exactly the models of the
\* ensemble most recently saved to dir, whatever the loading instance held
\* before and whatever files earlier saves left in dir.
C29_LoadGivesTheLastSave ==
    (call.op = "load" /\ call.out.kind = "ok") =>
        ens_models = ens_dir.saved_by.models

(***************************************************************************)
(*                       Claims on the ENTSO-E client                       *)
(***************************************************************************)

\* C25: get_actual_generation returns None without issuing any HTTP request
\* when the country is not a key of BIDDING_ZONES; for a known country it
\* issues exactly one request, and returns the response text when the request
\* succeeds and None when it raises an HTTP or request error.
C25_OneRequestForAKnownCountry ==
    api_call # None =>
        LET issued == SubSeq(api_requests, Len(api_call.before) + 1, Len(api_requests))
            reply  == api_call.reply
            failed == \/ reply.kind = "raise"
                      \/ reply.kind = "response" /\ reply.status_code >= 400
        IN  /\ SubSeq(api_requests, 1, Len(api_call.before)) = api_call.before
            /\ api_call.args.country \notin DOMAIN BIDDING_ZONES =>
                  /\ issued = <<>>
                  /\ api_call.out = Returned(None)
            /\ api_call.args.country \in DOMAIN BIDDING_ZONES =>
                  /\ Len(issued) = 1
                  /\ issued[1].url = BASE_URL
                  /\ failed => api_call.out = Returned(None)
                  /\ ~failed => api_call.out = Returned(Str(reply.text))
\* A known country whose request was answered with an HTTP error.
C25_Witness ==
    /\ api_call # None
    /\ api_call.args.country = "GB"
    /\ api_call.reply.kind = "response"
    /\ api_call.reply.status_code = 404
    /\ api_call.out = Returned(None)
    /\ Len(api_requests) = Len(api_call.before) + 1

\* The zone a call for `country` is claimed to query, and what it did query.
ZoneQueried == api_requests[Len(api_requests)].params.in_Domain
ZonesAre(claimed) ==
    (api_call # None /\ api_call.args.country \in DOMAIN claimed) =>
        /\ BIDDING_ZONES[api_call.args.country] = claimed[api_call.args.country]
        /\ Len(api_requests) = Len(api_call.before) + 1
        /\ ZoneQueried = claimed[api_call.args.country]

XmlPointsOf(doc) ==
    UNION {UNION {{<<i, j, k>> : k \in DOMAIN doc.series[i].periods[j].points} :
                     j \in DOMAIN doc.series[i].periods} :
              i \in DOMAIN doc.series}
SeriesAt(doc, t) == doc.series[t[1]]
PeriodAt(doc, t) == doc.series[t[1]].periods[t[2]]
PointAt(doc, t)  == doc.series[t[1]].periods[t[2]].points[t[3]]
ComesBefore(u, t) ==
    \/ u[1] < t[1]
    \/ u[1] = t[1] /\ u[2] < t[2]
    \/ u[1] = t[1] /\ u[2] = t[2] /\ u[3] < t[3]

\* A Period with a start time; a Point with a position and a numeric quantity.
HasStartTime(period) ==
    /\ period.start # Missing
    /\ period.start.text # None
    /\ period.start.text.form = "iso"
HasPositionAndQuantity(point) ==
    /\ point.position # Missing /\ point.quantity # Missing
    /\ ParseInt(point.position.text).kind = "ok"
    /\ ParseFloat(point.quantity.text).kind = "ok"
\* The Points the statement gives a record for.
RecordedPoints(doc) ==
    {t \in XmlPointsOf(doc) :
        /\ SeriesAt(doc, t).psrType # Missing
        /\ HasStartTime(PeriodAt(doc, t))
        /\ HasPositionAndQuantity(PointAt(doc, t))}
\* Hours since the start of day 0 of the instant: of the Period's start, of a row.
StartHours(period) ==
    ToOrdinal(period.start.text.year, period.start.text.month, period.start.text.day) * 24
        + period.start.text.hour
RowHours(row) == row.time.ordinal * 24 + row.time.hour
\* row is the record of Point t: time = start + (position - 1) hours.
RecordOf(doc, t, row) ==
    /\ row.psr_type = SeriesAt(doc, t).psrType.text
    /\ row.actual_generation_mw = ParseFloat(PointAt(doc, t).quantity.text).value
    /\ row.time.hour \in 0..23
    /\ RowHours(row) = StartHours(PeriodAt(doc, t))
                          + ParseInt(PointAt(doc, t).position.text).value - 1
\* out is the table of one record per Point of Q, in document order.
TableOfPoints(doc, Q, out) ==
    /\ out # None
    /\ Len(out.rows) = Cardinality(Q)
    /\ \A t \in Q :
          RecordOf(doc, t, out.rows[1 + Cardinality({u \in Q : ComesBefore(u, t)})])

\* C27 as stated: parse_generation_xml returns one record (time, psr_type,
\* actual_generation_mw) per Point that has a position and a numeric quantity
\* inside a TimeSeries with a psrType and a Period with a start time, with
\* time = start + (position - 1) hours; other Points are skipped; it returns
\* None, never an empty table, when no record is produced or the XML is
\* malformed.
C27_OneRecordPerPoint ==
    xml_call # None /\ xml_call.out # Unparsed =>
        LET doc == xml_call.doc
        IN  IF doc.wellformed = FALSE \/ RecordedPoints(doc) = {}
            THEN xml_call.out = None
            ELSE TableOfPoints(doc, RecordedPoints(doc), xml_call.out)

\* What ends the parse of the whole document: inside a TimeSeries with a
\* psrType, a Period whose start text is no ISO datetime, or a Point whose
\* time is beyond the range of datetime.
ParseAborts(doc) ==
    \/ \E i \in DOMAIN doc.series : \E j \in DOMAIN doc.series[i].periods :
          LET period == doc.series[i].periods[j]
          IN  /\ doc.series[i].psrType # Missing
              /\ period.start # Missing
              /\ period.start.text # None
              /\ period.start.text.form # "iso"
    \/ \E t \in RecordedPoints(doc) :
          LET hours == StartHours(PeriodAt(doc, t))
                          + ParseInt(PointAt(doc, t).position.text).value - 1
          IN  hours < 24 \/ hours >= (MaxOrdinal + 1) * 24

\* C27 as the parser has it: the same, except that None is also returned,
\* for the whole document, when some Period inside a TimeSeries with a psrType
\* has a start text that is no ISO datetime or some Point's time is out of
\* datetime's range, whatever other Points the document has.
C27_OneRecordPerPointUnlessAborted ==
    xml_call # None /\ xml_call.out # Unparsed =>
        LET doc == xml_call.doc
        IN  IF doc.wellformed = FALSE \/ ParseAborts(doc) \/ RecordedPoints(doc) = {}
            THEN xml_call.out = None
            ELSE TableOfPoints(doc, RecordedPoints(doc), xml_call.out)
\* Two records from a document that also has a Point without a position and a
\* Period that rolls over midnight.
C27_Witness ==
    /\ xml_call # None /\ xml_call.out # Unparsed /\ xml_call.out # None
    /\ Len(xml_call.out.rows) = 2
    /\ \E t \in XmlPointsOf(xml_call.doc) : PointAt(xml_call.doc, t).position = Missing
    /\ xml_call.out.rows[2].time = Timestamp(738887, 0)
    /\ xml_call.out.rows[2].actual_generation_mw = Rat(15, 2)

====
